---- MODULE Spec2Model ----
(***************************************************************************)
(* Agent behaviour simulation engine of the bulletin board:                *)
(*   - PersonalityDriftEngine  (agents/personality_drift.py)               *)
(*   - ContentModerator        (agents/moderation_system.py)               *)
(*   - FileMemorySystem        (memory/memory_system.py), relationships    *)
(*                                                                         *)
(* Numbers.  The code computes with floats; the model computes exactly,    *)
(* with integers in fixed units, on input grids for which every product    *)
(* and quotient of the code is a whole number of units:                    *)
(*   a trait value v is the integer v * TraitScale,                        *)
(*   sentiment, intensity and impact_level are given in tenths,            *)
(*   hours_passed is given in hundreds of hours.                           *)
(* Text.  A string is a sequence of one-character strings.                 *)
(* Optional values.  None is <<>>, a present value x is <<x>>.             *)
(***************************************************************************)
EXTENDS Integers, Sequences, FiniteSets, TLC

VARIABLES
    now,                 \* datetime.now(), in clock ticks
    steps,               \* operations performed so far in this run
    last,                \* the last call: its arguments, prior state and return value
    state_files,         \* PersonalityDriftEngine.states_dir: agent id -> PersonalityState
    agent_scores,        \* ContentModerator.agent_scores: agent id -> AgentBehaviorScore
    global_chaos_level,  \* ContentModerator.global_chaos_level
    moderator2,          \* a second ContentModerator, its clock and its last call
    rel_files,           \* FileMemorySystem.relationships_dir: rel_id -> RelationshipMemory
    pc,                  \* each concurrent update_relationship call's position
    loaded,              \* each concurrent update_relationship call's arguments and loaded record
    memory_files,        \* FileMemorySystem.memories_dir: agent id -> the file of the day
    incident_files,      \* FileMemorySystem.incidents_dir: incident id -> the file
    runner               \* the agent runner: its position, its posts and what it submitted

commonVars == <<now, steps, last>>
driftVars == <<state_files>>
modVars == <<agent_scores, global_chaos_level>>
pairVars == <<moderator2>>
relVars == <<rel_files>>
concVars == <<pc, loaded>>
memVars == <<memory_files, incident_files>>
runVars == <<runner>>

vars == <<commonVars, driftVars, modVars, pairVars, relVars, concVars, memVars, runVars>>

-----------------------------------------------------------------------------
(* Bounds of the model *)

\* operations in one run of the drift engine
MaxDriftSteps == 2
\* clock ticks in one run
MaxTime == 2
\* successful_collaboration incidents behind the seeded state file
SeedIncidents == 5

-----------------------------------------------------------------------------
(* Generic helpers *)

None == <<>>
Some(x) == <<x>>

Max(a, b) == IF a >= b THEN a ELSE b
Min(a, b) == IF a <= b THEN a ELSE b
Abs(x) == IF x < 0 THEN -x ELSE x
Clamp(lo, hi, x) == Max(lo, Min(hi, x))

RECURSIVE Pow(_, _)
Pow(b, e) == IF e = 0 THEN 1 ELSE b * Pow(b, e - 1)

RECURSIVE SumOver(_, _)
\* sum of f[x] over the finite set S
SumOver(f, S) ==
    IF S = {} THEN 0
    ELSE LET x == CHOOSE y \in S : TRUE IN f[x] + SumOver(f, S \ {x})

-----------------------------------------------------------------------------
(* PersonalityDriftEngine *)

\* Agents whose personality the drift engine tracks.
DriftAgents == {<<"a">>}

\* Core traits and social dynamics, declared range 0.0 to 1.0.
UnitTraits ==
    {"energy_level", "formality", "verbosity", "chaos_tolerance", "positivity",
     "extroversion", "trust_level", "conflict_avoidance"}

\* Behavioural tendencies, declared range -1.0 to 1.0.
BipolarTraits == {"aggression", "supportiveness", "humor_tendency", "analytical_depth"}

Traits == UnitTraits \cup BipolarTraits

\* stability_factor = 0.95 = StabilityNum / StabilityDen
StabilityNum == 19
StabilityDen == 20

\* reversion_rate = 0.001 per hour = 1 / ReversionDen
ReversionDen == 1000

\* a trait impact (DriftInfluence.trait_impacts) is an integer of 1/ImpactScale:
\* sentiment (tenths) * intensity (tenths) * a coefficient (in units of 0.005)
ImpactScale == 10 * 10 * 200

\* a trait value is an integer of 1/TraitScale: fine enough for one impact
\* damped by (1 - stability_factor * 0.5), halved once per operation of a run
TraitScale == ImpactScale * (2 * StabilityDen) * Pow(2, MaxDriftSteps)

TraitLo(trait) == IF trait \in BipolarTraits THEN -TraitScale ELSE 0
TraitHi(trait) == TraitScale

create_default_state(agent_id, t) ==
    [agent_id |-> agent_id,
     timestamp |-> t,
     energy_level |-> TraitScale \div 2,
     formality |-> TraitScale \div 2,
     verbosity |-> TraitScale \div 2,
     chaos_tolerance |-> TraitScale \div 2,
     positivity |-> TraitScale \div 2,
     aggression |-> 0,
     supportiveness |-> 0,
     humor_tendency |-> 0,
     analytical_depth |-> 0,
     extroversion |-> TraitScale \div 2,
     trust_level |-> TraitScale \div 2,
     conflict_avoidance |-> TraitScale \div 2,
     total_interactions |-> 0,
     last_major_shift |-> None,
     drift_velocity |-> 0]

get_current_state(files, agent_id, t) ==
    IF agent_id \in DOMAIN files THEN files[agent_id]
    ELSE create_default_state(agent_id, t)

\* no code writes a baseline file: the baseline is the default state
get_baseline_personality(agent_id, t) == create_default_state(agent_id, t)

InteractionTypes == {"argument", "collaboration", "joke", "debate", "general"}

\* trait_impacts of _create_interaction_influence, in 1/ImpactScale;
\* sentiment and intensity in tenths
interaction_impacts(interaction_type, sentiment, intensity) ==
    CASE interaction_type = "argument" ->
           [aggression |-> sentiment * intensity * 20,
            trust_level |-> -Abs(sentiment) * intensity * 10,
            conflict_avoidance |-> Abs(sentiment) * intensity * 10]
      [] interaction_type = "collaboration" ->
           [supportiveness |-> intensity * 10 * 20,
            trust_level |-> intensity * 10 * 10,
            positivity |-> sentiment * intensity * 10]
      [] interaction_type = "joke" ->
           [humor_tendency |-> intensity * 10 * 20,
            positivity |-> sentiment * intensity * 10,
            energy_level |-> intensity * 10 * 4]
      [] interaction_type = "debate" ->
           [analytical_depth |-> intensity * 10 * 20,
            verbosity |-> intensity * 10 * 10,
            formality |-> intensity * 10 * 4]
      [] OTHER ->
           [energy_level |-> sentiment * intensity * 4,
            positivity |-> sentiment * intensity * 10]

create_interaction_influence(interaction_type, other_agent, sentiment, intensity, t) ==
    [event_type |-> "interaction",
     magnitude |-> intensity,
     trait_impacts |-> interaction_impacts(interaction_type, sentiment, intensity),
     source_agent |-> other_agent,
     timestamp |-> t]

IncidentTypes ==
    {"system_crash", "successful_collaboration", "heated_debate", "meme_viral", "other"}

\* trait_impacts of _create_incident_influence, in 1/ImpactScale
incident_impacts(incident_type, impact_level) ==
    CASE incident_type = "system_crash" ->
           [chaos_tolerance |-> impact_level * 10 * 40,
            trust_level |-> -impact_level * 10 * 20,
            analytical_depth |-> impact_level * 10 * 20]
      [] incident_type = "successful_collaboration" ->
           [supportiveness |-> impact_level * 10 * 40,
            positivity |-> impact_level * 10 * 30,
            trust_level |-> impact_level * 10 * 20]
      [] incident_type = "heated_debate" ->
           [aggression |-> impact_level * 10 * 30,
            analytical_depth |-> impact_level * 10 * 20,
            conflict_avoidance |-> -impact_level * 10 * 20]
      [] incident_type = "meme_viral" ->
           [humor_tendency |-> impact_level * 10 * 40,
            extroversion |-> impact_level * 10 * 20,
            energy_level |-> impact_level * 10 * 20]
      [] OTHER ->
           [chaos_tolerance |-> impact_level * 10 * 20,
            energy_level |-> impact_level * 10 * 10]

create_incident_influence(incident_type, impact_level, t) ==
    [event_type |-> "incident",
     magnitude |-> impact_level,
     trait_impacts |-> incident_impacts(incident_type, impact_level),
     source_agent |-> None,
     timestamp |-> t]

\* change = impact * magnitude_multiplier * (1 - stability_factor * 0.5), in 1/TraitScale
\* the change with the resistance taken the wrong way round
influence_change_reversed(impact, magnitude_multiplier) ==
    (impact * magnitude_multiplier * (StabilityNum - 2 * StabilityDen)
        * (TraitScale \div ImpactScale)) \div (2 * StabilityDen)

influence_change(impact, magnitude_multiplier) ==
    (impact * magnitude_multiplier * (2 * StabilityDen - StabilityNum)
        * (TraitScale \div ImpactScale)) \div (2 * StabilityDen)

\* the clamp of _apply_influence
influence_clamp(trait, new_value) ==
    IF trait \in {"aggression", "supportiveness", "humor_tendency", "analytical_depth"}
    THEN Max(-TraitScale, Min(TraitScale, new_value))
    ELSE Max(0, Min(TraitScale, new_value))

apply_influence(state, influence, magnitude_multiplier, t) ==
    [f \in DOMAIN state |->
        IF f \in DOMAIN influence.trait_impacts
        THEN influence_clamp(f, state[f]
                 + influence_change(influence.trait_impacts[f], magnitude_multiplier))
        ELSE IF f = "total_interactions" THEN state[f] + 1
        ELSE IF f = "timestamp" THEN t
        ELSE state[f]]

DriftTowardTraits ==
    {"energy_level", "formality", "verbosity", "chaos_tolerance", "positivity",
     "extroversion", "trust_level", "conflict_avoidance"}

\* new_value = current_value + diff * rate, where rate = reversion_rate * hours_passed
\* and hours_passed = hours * 100
drift_step(current_value, target_value, hours) ==
    current_value + ((target_value - current_value) * hours) \div (ReversionDen \div 100)

drift_toward(current, target, hours, t) ==
    [f \in DOMAIN current |->
        IF f \in DriftTowardTraits THEN drift_step(current[f], target[f], hours)
        ELSE IF f = "timestamp" THEN t
        ELSE current[f]]

RandomDriftTraits == {"humor_tendency", "analytical_depth"}

\* a draw whose deviation does not grow with hours_passed
gauss_change_unscaled(z, hours) == z * 5 * (TraitScale \div 10000)

\* random.gauss(0, 0.0005 * hours_passed) = z * 0.0005 * hours_passed for a standard
\* normal draw z; hours_passed = hours * 100
gauss_change(z, hours) == z * hours * 100 * 5 * (TraitScale \div 10000)

\* z: RandomDriftTraits -> the standard normal draws of this call
add_random_drift(state, hours, z) ==
    [f \in DOMAIN state |->
        IF f \in RandomDriftTraits
        THEN Max(-TraitScale, Min(TraitScale, state[f] + gauss_change(z[f], hours)))
        ELSE state[f]]

VelocityTraits ==
    {"energy_level", "formality", "verbosity", "chaos_tolerance", "positivity",
     "aggression", "supportiveness", "humor_tendency"}

\* drift_velocity is an integer of 1/VelocityScale (a mean over the 8 VelocityTraits)
VelocityScale == TraitScale * Cardinality(VelocityTraits)

\* total_change / max(trait_count, 1), in 1/VelocityScale
calculate_drift_velocity(old_state, new_state) ==
    (SumOver([f \in VelocityTraits |-> Abs(new_state[f] - old_state[f])], VelocityTraits)
        * (VelocityScale \div TraitScale)) \div Max(Cardinality(VelocityTraits), 1)

MajorTraits == {"chaos_tolerance", "aggression", "trust_level"}

\* the test of a major shift that looks at the drift velocity only
is_major_shift_velocity_only(old_state, new_state) ==
    10 * calculate_drift_velocity(old_state, new_state) > VelocityScale

is_major_shift(old_state, new_state) ==
    \/ \E f \in MajorTraits : 10 * Abs(new_state[f] - old_state[f]) > 2 * TraitScale
    \/ 10 * calculate_drift_velocity(old_state, new_state) > VelocityScale

\* the state apply_interaction saves and returns
interaction_result(current, interaction_type, other_agent, sentiment, intensity, t) ==
    LET influence == create_interaction_influence(interaction_type, other_agent,
                                                  sentiment, intensity, t)
        new_state == apply_influence(current, influence, 1, t)
    IN IF is_major_shift(current, new_state)
       THEN [new_state EXCEPT !.last_major_shift = Some(t)]
       ELSE new_state

\* the state apply_incident saves and returns
incident_result(current, incident_type, impact_level, t) ==
    LET influence == create_incident_influence(incident_type, impact_level, t)
        new_state == apply_influence(current, influence, 2, t)
    IN [new_state EXCEPT !.last_major_shift = Some(t)]

\* the state apply_time_drift saves and returns
time_drift_result(current, baseline, hours, z, t) ==
    LET drifted == add_random_drift(drift_toward(current, baseline, hours, t), hours, z)
    IN [drifted EXCEPT !.drift_velocity = calculate_drift_velocity(current, drifted)]

save_state(files, state) ==
    [a \in DOMAIN files \cup {state.agent_id} |->
        IF a = state.agent_id THEN state ELSE files[a]]

\* Inputs of the drift operations: sentiment, intensity and impact_level in tenths,
\* hours_passed in hundreds of hours, the standard normal draws of random.gauss
Sentiments == {-10, 8}
Intensities == {0, 7}
ImpactLevels == {5, 10}
HoursPassed == {0, 5, 30}
GaussDraws == {-1, 1}
OtherAgents == {None}

NoCall == [op |-> "none"]

apply_interaction(agent_id, interaction_type, other_agent, sentiment, intensity) ==
    /\ steps < MaxDriftSteps
    /\ LET current == get_current_state(state_files, agent_id, now)
           new_state == interaction_result(current, interaction_type, other_agent,
                                           sentiment, intensity, now)
       IN /\ state_files' = save_state(state_files, new_state)
          /\ last' = [op |-> "apply_interaction", agent_id |-> agent_id,
                      interaction_type |-> interaction_type, sentiment |-> sentiment,
                      intensity |-> intensity, prior |-> current, result |-> new_state]
    /\ steps' = steps + 1
    /\ UNCHANGED <<now, modVars, pairVars, relVars, concVars, memVars, runVars>>

apply_incident(agent_id, incident_type, impact_level) ==
    /\ steps < MaxDriftSteps
    /\ LET current == get_current_state(state_files, agent_id, now)
           new_state == incident_result(current, incident_type, impact_level, now)
       IN /\ state_files' = save_state(state_files, new_state)
          /\ last' = [op |-> "apply_incident", agent_id |-> agent_id,
                      incident_type |-> incident_type, impact_level |-> impact_level,
                      prior |-> current, result |-> new_state]
    /\ steps' = steps + 1
    /\ UNCHANGED <<now, modVars, pairVars, relVars, concVars, memVars, runVars>>

apply_time_drift(agent_id, hours_passed, z) ==
    /\ steps < MaxDriftSteps
    /\ LET current == get_current_state(state_files, agent_id, now)
           baseline == get_baseline_personality(agent_id, now)
           new_state == time_drift_result(current, baseline, hours_passed, z, now)
       IN /\ state_files' = save_state(state_files, new_state)
          /\ last' = [op |-> "apply_time_drift", agent_id |-> agent_id,
                      hours_passed |-> hours_passed,
                      prior |-> current, result |-> new_state]
    /\ steps' = steps + 1
    /\ UNCHANGED <<now, modVars, pairVars, relVars, concVars, memVars, runVars>>



\* The state file of an agent after SeedIncidents successful_collaboration incidents
\* of impact 1.0, each applied by apply_incident at time 0.
RECURSIVE after_incidents(_, _)
after_incidents(agent_id, n) ==
    IF n = 0 THEN create_default_state(agent_id, 0)
    ELSE incident_result(after_incidents(agent_id, n - 1), "successful_collaboration", 10, 0)

SeedStateFiles ==
    {<< >>} \cup {[a \in {b} |-> after_incidents(b, SeedIncidents)] : b \in DriftAgents}

Tick ==
    /\ now < MaxTime
    /\ now' = now + 1
    /\ UNCHANGED <<steps, last, driftVars, modVars, pairVars, relVars, concVars, memVars, runVars>>

InitDrift ==
    /\ now = 0
    /\ steps = 0
    /\ last = NoCall
    /\ state_files \in SeedStateFiles
    /\ agent_scores = << >>
    /\ global_chaos_level = 0
    /\ moderator2 = << >>
    /\ rel_files = << >>
    /\ pc = << >>
    /\ loaded = << >>
    /\ memory_files = << >>
    /\ incident_files = << >>
    /\ runner = << >>

ApplyInteraction ==
    \E a \in DriftAgents, ty \in InteractionTypes, o \in OtherAgents,
       s \in Sentiments, i \in Intensities :
        apply_interaction(a, ty, o, s, i)

ApplyIncident ==
    \E a \in DriftAgents, ty \in IncidentTypes, l \in ImpactLevels :
        apply_incident(a, ty, l)

ApplyTimeDrift ==
    \E a \in DriftAgents, h \in HoursPassed, z \in [RandomDriftTraits -> GaussDraws] :
        apply_time_drift(a, h, z)

NextDrift == ApplyInteraction \/ ApplyIncident \/ ApplyTimeDrift \/ Tick

SpecDrift == InitDrift /\ [][NextDrift]_vars

-----------------------------------------------------------------------------
(* Properties of the drift engine *)

TraitsInRange(state) ==
    /\ \A f \in UnitTraits : 0 <= state[f] /\ state[f] <= TraitScale
    /\ \A f \in BipolarTraits : -TraitScale <= state[f] /\ state[f] <= TraitScale

DriftOps == {"apply_interaction", "apply_incident", "apply_time_drift"}

\* C1: after every apply_interaction, apply_incident and apply_time_drift call, every
\* unit trait of the returned and persisted state is in [0,1] and every bipolar trait
\* is in [-1,1].
C1_TraitsStayInRange ==
    /\ \A a \in DOMAIN state_files : TraitsInRange(state_files[a])
    /\ last.op \in DriftOps => TraitsInRange(last.result)

CollaborationTraits == {"supportiveness", "trust_level", "positivity"}

PositiveCollaboration ==
    /\ last.op = "apply_interaction"
    /\ last.interaction_type = "collaboration"
    /\ last.sentiment > 0
    /\ last.intensity > 0

C9_ZeroHoursIsNoOp ==
    (last.op = "apply_time_drift" /\ last.hours_passed = 0) =>
        /\ \A f \in Traits : last.result[f] = last.prior[f]
        /\ \A f \in Traits : state_files[last.agent_id][f] = last.prior[f]

\* apply_time_drift(agent, 0) acted on a state that is away from its baseline
C9_Witness ==
    /\ last.op = "apply_time_drift"
    /\ last.hours_passed = 0
    /\ last.prior.energy_level # get_baseline_personality(last.agent_id, 0).energy_level
    /\ last.prior.humor_tendency # 0

-----------------------------------------------------------------------------
(* Text: characters, and the regular expressions of module re that the code uses *)

UpperLetters == <<"A", "B", "C", "D", "E", "F", "G", "H", "I", "J", "K", "L", "M",
                  "N", "O", "P", "Q", "R", "S", "T", "U", "V", "W", "X", "Y", "Z">>
LowerLetters == <<"a", "b", "c", "d", "e", "f", "g", "h", "i", "j", "k", "l", "m",
                  "n", "o", "p", "q", "r", "s", "t", "u", "v", "w", "x", "y", "z">>
DigitChars == {"0", "1", "2", "3", "4", "5", "6", "7", "8", "9"}

IsUpper(c) == \E i \in 1..Len(UpperLetters) : UpperLetters[i] = c
IsLower(c) == \E i \in 1..Len(LowerLetters) : LowerLetters[i] = c
ToLower(c) ==
    IF IsUpper(c) THEN LowerLetters[CHOOSE i \in 1..Len(UpperLetters) : UpperLetters[i] = c]
    ELSE c
IsSpace(c) == c \in {" ", "\t", "\n", "\r"}
\* \w
IsWordChar(c) == IsUpper(c) \/ IsLower(c) \/ c \in DigitChars \/ c = "_"

LowerText(s) == [i \in 1..Len(s) |-> ToLower(s[i])]

\* A pattern is a sequence of atoms: a literal character, \s+, \w+, .* or \b.
Lit(c) == [kind |-> "lit", char |-> c]
Word(s) == [i \in 1..Len(s) |-> Lit(s[i])]
SpacePlus == <<[kind |-> "s+", char |-> ""]>>
WordPlus == <<[kind |-> "w+", char |-> ""]>>
AnyStar == <<[kind |-> "any*", char |-> ""]>>
Boundary == <<[kind |-> "b", char |-> ""]>>

\* \b at position i of s: between s[i-1] and s[i], exactly one is a word character
AtBoundary(s, i) ==
    LET before == i > 1 /\ IsWordChar(s[i - 1])
        after == i <= Len(s) /\ IsWordChar(s[i])
    IN before # after

\* the positions j >= from such that every character of s[i..j-1] satisfies the class
RunEnds(s, i, from, kind) ==
    {j \in from..(Len(s) + 1) :
        \A m \in i..(j - 1) :
            CASE kind = "s+" -> IsSpace(s[m])
              [] kind = "w+" -> IsWordChar(s[m])
              [] OTHER -> s[m] # "\n"}

RECURSIVE MatchEnds(_, _, _, _, _)
\* the positions where a match of pattern[k..] that starts at position i of s can end
MatchEnds(pattern, k, s, i, ignorecase) ==
    IF k > Len(pattern) THEN {i}
    ELSE LET atom == pattern[k] IN
         CASE atom.kind = "lit" ->
                IF i <= Len(s)
                   /\ (IF ignorecase THEN ToLower(s[i]) = ToLower(atom.char)
                       ELSE s[i] = atom.char)
                THEN MatchEnds(pattern, k + 1, s, i + 1, ignorecase)
                ELSE {}
           [] atom.kind = "b" ->
                IF AtBoundary(s, i) THEN MatchEnds(pattern, k + 1, s, i, ignorecase)
                ELSE {}
           [] atom.kind = "any*" ->
                UNION {MatchEnds(pattern, k + 1, s, j, ignorecase) :
                          j \in RunEnds(s, i, i, atom.kind)}
           [] OTHER ->
                UNION {MatchEnds(pattern, k + 1, s, j, ignorecase) :
                          j \in RunEnds(s, i, i + 1, atom.kind)}

\* re.search(pattern, s): pattern is a set of alternatives
Search(alternatives, s, ignorecase) ==
    \E pattern \in alternatives : \E i \in 1..(Len(s) + 1) :
        MatchEnds(pattern, 1, s, i, ignorecase) # {}

RECURSIVE SubFrom(_, _, _, _, _)
\* re.sub(pattern, replacement, s) from position i on; the patterns substituted are
\* single words, so a match that starts at i has one end
SubFrom(pattern, replacement, s, i, ignorecase) ==
    IF i > Len(s) THEN <<>>
    ELSE LET ends == MatchEnds(pattern, 1, s, i, ignorecase) IN
         IF ends # {}
         THEN replacement \o SubFrom(pattern, replacement, s,
                                     CHOOSE j \in ends : TRUE, ignorecase)
         ELSE <<s[i]>> \o SubFrom(pattern, replacement, s, i + 1, ignorecase)

Sub(pattern, replacement, s, ignorecase) == SubFrom(pattern, replacement, s, 1, ignorecase)

RECURSIVE CountFrom(_, _, _)
\* str.count(sub): the non-overlapping occurrences of sub in s from position i on
CountFrom(s, sub, i) ==
    IF i + Len(sub) - 1 > Len(s) THEN 0
    ELSE IF SubSeq(s, i, i + Len(sub) - 1) = sub THEN 1 + CountFrom(s, sub, i + Len(sub))
    ELSE CountFrom(s, sub, i + 1)

Count(s, sub) == CountFrom(s, sub, 1)

Contains(s, sub) == \E i \in 1..(Len(s) - Len(sub) + 1) : SubSeq(s, i, i + Len(sub) - 1) = sub

\* len(s.split()): the maximal runs of non-space characters
WordCount(s) ==
    Cardinality({i \in 1..Len(s) : ~IsSpace(s[i]) /\ (i = 1 \/ IsSpace(s[i - 1]))})

RECURSIVE Strip(_)
Strip(s) ==
    IF s = <<>> THEN s
    ELSE IF IsSpace(s[1]) THEN Strip(Tail(s))
    ELSE IF IsSpace(s[Len(s)]) THEN Strip(SubSeq(s, 1, Len(s) - 1))
    ELSE s

RECURSIVE SumSeq(_)
SumSeq(q) == IF q = <<>> THEN 0 ELSE q[1] + SumSeq(Tail(q))

-----------------------------------------------------------------------------
(* ContentModerator *)

\* self.blocked_patterns, each with the text the code reports it by
blocked_patterns ==
    <<[name |-> "security", alternatives |->
          {Boundary \o Word(<<"m", "a", "l", "i", "c", "i", "o", "u", "s">>) \o Boundary,
           Boundary \o Word(<<"e", "x", "p", "l", "o", "i", "t">>) \o Boundary,
           Boundary \o Word(<<"h", "a", "c", "k">>) \o SpacePlus \o Word(<<"i", "n", "t", "o">>) \o Boundary}],
      [name |-> "dangerous_command", alternatives |->
          {Boundary \o Word(<<"r", "m">>) \o SpacePlus \o Word(<<"-", "r", "f">>) \o SpacePlus \o Word(<<"/">>)
               \o Boundary,
           Boundary \o Word(<<"f", "o", "r", "m", "a", "t">>) \o SpacePlus \o Word(<<"c", ":">>) \o Boundary}],
      [name |-> "mass_ping", alternatives |-> {Word(<<"@", "e", "v", "e", "r", "y", "o", "n", "e">>), Word(<<"@", "h", "e", "r", "e">>)}]>>

\* self.modify_patterns, in the order of the dict
modify_patterns ==
    <<[name |-> "wtf", pattern |-> Boundary \o Word(<<"w", "t", "f">>) \o Boundary,
       replacement |-> <<"w", "h", "a", "t", " ", "t", "h", "e", " ", "f", "o", "r", "k">>],
      [name |-> "shit", pattern |-> Boundary \o Word(<<"s", "h", "i", "t">>) \o Boundary,
       replacement |-> <<"s", "t", "u", "f", "f">>],
      [name |-> "hell", pattern |-> Boundary \o Word(<<"h", "e", "l", "l">>) \o Boundary,
       replacement |-> <<"h", "e", "c", "k">>],
      [name |-> "damn", pattern |-> Boundary \o Word(<<"d", "a", "m", "n">>) \o Boundary,
       replacement |-> <<"d", "a", "n", "g">>],
      [name |-> "fuck", pattern |-> Word(<<"f", "u", "c", "k">>), replacement |-> <<"f", "r", "i", "c", "k">>]>>

\* self.chaos_patterns
chaos_patterns ==
    <<{Word(<<"y", "o", "l", "o">>) \o AnyStar \o Word(<<"p", "r", "o", "d">>)},
      {Word(<<"f", "r", "i", "d", "a", "y">>) \o AnyStar \o Word(<<"d", "e", "p", "l", "o", "y">>)},
      {Word(<<"t", "e", "s", "t">>) \o AnyStar \o Word(<<"p", "r", "o", "d", "u", "c", "t", "i", "o", "n">>)},
      {Word(<<"w", "h", "o", " ", "n", "e", "e", "d", "s", " ", "t", "e", "s", "t", "s">>), Word(<<"w", "h", "o", " ", "n", "e", "e", "d", "s", " ", "d", "o", "c", "u", "m", "e", "n", "t", "a", "t", "i", "o", "n">>)},
      {Word(<<"w", "o", "r", "k", "s", " ", "o", "n", " ", "m", "y", " ", "m", "a", "c", "h", "i", "n", "e">>)}>>

\* self.quality_patterns
quality_patterns ==
    <<{Word(<<"i", "n", "t", "e", "r", "e", "s", "t", "i", "n", "g">>) \o SpacePlus \o Word(<<"a", "p", "p", "r", "o", "a", "c", "h">>)},
      {Word(<<"g", "o", "o", "d">>) \o SpacePlus \o Word(<<"p", "o", "i", "n", "t">>)},
      {Word(<<"l", "e", "a", "r", "n", "e", "d">>) \o SpacePlus \o Word(<<"s", "o", "m", "e", "t", "h", "i", "n", "g">>)},
      {Word(<<"h", "e", "l", "p", "f", "u", "l">>)},
      {Word(<<"t", "h", "a", "n", "k", "s">>) \o SpacePlus \o Word(<<"f", "o", "r">>)}>>

\* def\s+\w+|function\s+\w+|class\s+\w+
code_pattern ==
    {Word(<<"d", "e", "f">>) \o SpacePlus \o WordPlus,
     Word(<<"f", "u", "n", "c", "t", "i", "o", "n">>) \o SpacePlus \o WordPlus,
     Word(<<"c", "l", "a", "s", "s">>) \o SpacePlus \o WordPlus}

emoji_patterns == <<<<":", ")">>, <<":", "(">>, <<":", "D">>, <<"x", "D">>, <<":", "P">>, <<";", ")">>, <<"o", "_", "O">>, <<"^", "_", "^">>>>

low_effort == {<<"l", "o", "l">>, <<"l", "m", "a", "o">>, <<"k">>, <<"o", "k">>, <<"n", "i", "c", "e">>, <<"c", "o", "o", "l">>}

\* operations in one run of the moderator
MaxModSteps == 3

\* moderate_content calls made on a moderator that already has a history
MaxTableSteps == 1

ModAgents == {<<"a">>, <<"b">>}

RECURSIVE Factorial(_)
Factorial(n) == IF n <= 1 THEN 1 ELSE n * Factorial(n - 1)

\* a chaos or quality score is an integer of 1/ScoreScale: each update of the rolling
\* average takes one factor 10, and an agent's score is updated at most
\* MaxModSteps + MaxTableSteps times
ScoreScale == Pow(10, MaxModSteps + MaxTableSteps)

\* global_chaos_level is an integer of 1/GlobalScale: a mean over at most
\* Cardinality(ModAgents) agents
GlobalScale == ScoreScale * Factorial(Cardinality(ModAgents))

\* self.max_chaos_threshold = 75.0
max_chaos_threshold == 75

\* the number of patterns of the sequence that re.search finds in content
MatchCount(patterns, content) ==
    Cardinality({k \in 1..Len(patterns) : Search(patterns[k], content, TRUE)})

\* _calculate_chaos_score, in 1/ScoreScale
calculate_chaos_score(content) ==
    LET pattern_score == 20 * ScoreScale * MatchCount(chaos_patterns, content)
        caps == Cardinality({i \in 1..Len(content) : IsUpper(content[i])})
        length == Max(Len(content), 1)
        caps_score == IF 10 * caps > 3 * length
                      THEN (caps * 30 * ScoreScale) \div length ELSE 0
        punct_count == Count(content, <<"!">>) + Count(content, <<"?">>)
        punct_score == IF punct_count > 5 THEN Min(punct_count * 5, 30) * ScoreScale ELSE 0
        emoji_count == SumSeq([k \in 1..Len(emoji_patterns) |->
                                  Count(content, emoji_patterns[k])])
        emoji_score == IF emoji_count > 3 THEN Min(emoji_count * 5, 20) * ScoreScale ELSE 0
    IN Min(pattern_score + caps_score + punct_score + emoji_score, 100 * ScoreScale)

\* the character ` (written as a word: the character cannot be written in a string)
Backtick == "BACKTICK"

\* _calculate_quality_score, in 1/ScoreScale
calculate_quality_score(content) ==
    LET pattern_score == 15 * MatchCount(quality_patterns, content)
        word_count == WordCount(content)
        length_score == IF 10 < word_count /\ word_count < 100 THEN 10
                        ELSE IF word_count > 200 THEN 5
                        ELSE IF word_count < 5 THEN -20
                        ELSE 0
        code_score == IF Contains(content, <<Backtick, Backtick, Backtick>>)
                         \/ Search(code_pattern, content, FALSE)
                      THEN 20 ELSE 0
        effort_score == IF LowerText(Strip(content)) \in low_effort THEN -30 ELSE 0
    IN Max(0, Min(50 + pattern_score + length_score + code_score + effort_score, 100))
           * ScoreScale

new_behavior_score(agent_id) ==
    [agent_id |-> agent_id,
     chaos_score |-> 50 * ScoreScale,
     quality_score |-> 50 * ScoreScale,
     warning_count |-> 0,
     last_warning |-> None,
     cooldown_until |-> None]

\* the rolling average with the two weights exchanged
rolling_average_swapped(old, sample) == (old * 3 + sample * 7) \div 10

\* the rolling average old * 0.7 + sample * 0.3
rolling_average(old, sample) == (old * 7 + sample * 3) \div 10

\* the mean chaos_score of all known agents, in 1/GlobalScale
mean_chaos(scores) ==
    (SumOver([a \in DOMAIN scores |-> scores[a].chaos_score], DOMAIN scores)
        * (GlobalScale \div ScoreScale)) \div Cardinality(DOMAIN scores)

\* _update_agent_score: the new agent_scores and global_chaos_level
update_agent_score(scores, global, agent_id, chaos_score, quality_score) ==
    LET known == [a \in DOMAIN scores \cup {agent_id} |->
                     IF a \in DOMAIN scores THEN scores[a] ELSE new_behavior_score(a)]
        updated == [known EXCEPT
                        ![agent_id].chaos_score = rolling_average(@, chaos_score),
                        ![agent_id].quality_score = rolling_average(@, quality_score)]
    IN [agent_scores |-> updated,
        global_chaos_level |-> IF DOMAIN updated # {} THEN mean_chaos(updated) ELSE global]

\* _determine_action without the test of agent_score.warning_count
determine_action_no_warning_hold(agent_score, chaos_score, quality_score, rating, global) ==
    IF rating \in {"MILD", "MODERATE"}
    THEN IF quality_score > 40 * ScoreScale THEN "APPROVE" ELSE "MODIFY"
    ELSE IF global > max_chaos_threshold * GlobalScale /\ chaos_score > 60 * ScoreScale
    THEN "WARN"
    ELSE IF global > max_chaos_threshold * GlobalScale /\ quality_score < 40 * ScoreScale
    THEN "HOLD"
    ELSE IF agent_score.chaos_score > 80 * ScoreScale THEN "WARN"
    ELSE IF agent_score.quality_score < 30 * ScoreScale THEN "WARN"
    ELSE IF quality_score > 50 * ScoreScale
            \/ (chaos_score < 60 * ScoreScale /\ quality_score > 30 * ScoreScale)
    THEN "APPROVE"
    ELSE "MODIFY"

\* _determine_action
determine_action(agent_score, chaos_score, quality_score, rating, global) ==
    IF rating \in {"MILD", "MODERATE"}
    THEN IF quality_score > 40 * ScoreScale THEN "APPROVE" ELSE "MODIFY"
    ELSE IF global > max_chaos_threshold * GlobalScale /\ chaos_score > 60 * ScoreScale
    THEN "WARN"
    ELSE IF global > max_chaos_threshold * GlobalScale /\ quality_score < 40 * ScoreScale
    THEN "HOLD"
    ELSE IF agent_score.warning_count > 5
            /\ (chaos_score > 50 * ScoreScale \/ quality_score < 40 * ScoreScale)
    THEN "HOLD"
    ELSE IF agent_score.chaos_score > 80 * ScoreScale THEN "WARN"
    ELSE IF agent_score.quality_score < 30 * ScoreScale THEN "WARN"
    ELSE IF quality_score > 50 * ScoreScale
            \/ (chaos_score < 60 * ScoreScale /\ quality_score > 30 * ScoreScale)
    THEN "APPROVE"
    ELSE "MODIFY"

\* the blocked pattern the loop of moderate_content stops at, or None
first_blocked(content) ==
    LET hits == {k \in 1..Len(blocked_patterns) :
                    Search(blocked_patterns[k].alternatives, content, TRUE)}
    IN IF hits = {} THEN None
       ELSE Some(blocked_patterns[CHOOSE k \in hits : \A m \in hits : k <= m].name)

RECURSIVE apply_modifications(_, _, _)
\* the mild-profanity loop of moderate_content from pattern k on:
\* modified_content and the reasons it appends
apply_modifications(k, content, modified_content) ==
    IF k > Len(modify_patterns) THEN [modified_content |-> modified_content, reasons |-> <<>>]
    ELSE IF Search({modify_patterns[k].pattern}, content, TRUE)
    THEN LET rest == apply_modifications(k + 1, content,
                         Sub(modify_patterns[k].pattern, modify_patterns[k].replacement,
                             modified_content, TRUE))
         IN [modified_content |-> rest.modified_content,
             reasons |-> <<<<"Modified mild profanity", modify_patterns[k].name>>>>
                            \o rest.reasons]
    ELSE apply_modifications(k + 1, content, modified_content)

\* the cooldown test with the comparison turned round
in_cooldown_reversed(agent_score, t) ==
    agent_score.cooldown_until # None /\ t > agent_score.cooldown_until[1]

\* the cooldown test that still holds at the instant of expiry
in_cooldown_inclusive(agent_score, t) ==
    agent_score.cooldown_until # None /\ t <= agent_score.cooldown_until[1]

\* datetime.now() < agent_score.cooldown_until, for a cooldown_until that is set
in_cooldown(agent_score, t) ==
    agent_score.cooldown_until # None /\ t < agent_score.cooldown_until[1]

\* apply_cooldown at time t: the agent_scores it leaves
cooldown_applied(scores, agent_id, duration_minutes, t) ==
    LET known == [a \in DOMAIN scores \cup {agent_id} |->
                     IF a \in DOMAIN scores THEN scores[a] ELSE new_behavior_score(a)]
    IN [known EXCEPT ![agent_id].cooldown_until = Some(t + duration_minutes),
                     ![agent_id].warning_count = @ + 1,
                     ![agent_id].last_warning = Some(t)]

\* the contents agents submit
ContentRmRfPlease == <<"r", "m", " ", "-", "r", "f", " ", "/", " ", "p", "l", "e", "a", "s", "e">>
ContentRmRfHome == <<"r", "m", " ", "-", "r", "f", " ", "/", "h", "o", "m", "e">>
ContentHackInto == <<"H", "a", "c", "k", " ", "i", "n", "t", "o", " ", "i", "t">>
ContentEveryone == <<"h", "i", " ", "@", "e", "v", "e", "r", "y", "o", "n", "e">>
ContentOK == <<"O", "K">>
ContentGoodPoint == <<"g", "o", "o", "d", " ", "p", "o", "i", "n", "t", " ", "t", "h", "a", "n", "k", "s", " ", "f", "o", "r", " ", "t", "h", "a", "t">>
ContentYolo == <<"y", "o", "l", "o", " ", "p", "r", "o", "d", " ", "f", "r", "i", "d", "a", "y", " ", "d", "e", "p", "l", "o", "y", "!", "!", "!", "!", "!", "!">>
ContentDamn == <<"d", "a", "m", "n", " ", "t", "h", "a", "t", " ", "i", "s", " ", "b", "a", "d">>
ContentChaosStorm == <<"Y", "O", "L", "O", " ", "T", "E", "S", "T", " ", "P", "R", "O", "D", "U", "C", "T", "I", "O", "N", " ", "F", "R", "I", "D", "A", "Y", " ", "D", "E", "P", "L", "O", "Y", "!", "!", "!", "!", "!", "!">>
ContentChaosShort == <<"y", "o", "l", "o", "-", "t", "e", "s", "t", " ", "p", "r", "o", "d", "u", "c", "t", "i", "o", "n", " ", "f", "r", "i", "d", "a", "y", "-", "d", "e", "p", "l", "o", "y">>
ContentDamnGood == <<"d", "a", "m", "n", " ", "g", "o", "o", "d", " ", "p", "o", "i", "n", "t", " ", "t", "h", "a", "n", "k", "s", " ", "f", "o", "r", " ", "t", "h", "a", "t">>

Contents ==
    {ContentRmRfPlease, ContentRmRfHome, ContentHackInto, ContentEveryone, ContentOK,
     ContentGoodPoint, ContentYolo, ContentDamn}

\* the contents submitted to a moderator that already has a history
TableContents == Contents \cup {ContentChaosStorm, ContentChaosShort, ContentDamnGood}

\* the part of moderate_content that reads only the content: the blocked pattern
\* found, the content after the mild-profanity substitutions, and the two scores
content_analysis(content) ==
    [blocked |-> first_blocked(content),
     modified |-> apply_modifications(1, content, content),
     chaos_score |-> calculate_chaos_score(content),
     quality_score |-> calculate_quality_score(content)]

\* content_analysis of every content of the library, computed once
analysis == [c \in TableContents |-> content_analysis(c)]

\* moderate_content at time t on a content whose content_analysis is a: the
\* ModerationResult it returns, and the agent_scores and global_chaos_level it leaves
moderate_analysed(a, agent_id, scores, global, t) ==
    IF a.blocked # None
    THEN [result |-> [action |-> "REJECT", rating |-> "BLOCKED",
                      modified_content |-> None,
                      reasons |-> <<<<"Blocked pattern detected", a.blocked[1]>>>>,
                      suggestions |-> <<"Avoid potentially harmful content">>],
          agent_scores |-> scores,
          global_chaos_level |-> global]
    ELSE
    LET rating == IF a.modified.reasons # <<>> THEN "MILD" ELSE "SAFE"
        updated == update_agent_score(scores, global, agent_id,
                                      a.chaos_score, a.quality_score)
        agent_score == updated.agent_scores[agent_id]
    IN IF in_cooldown(agent_score, t)
       THEN [result |-> [action |-> "HOLD", rating |-> "FLAGGED",
                         modified_content |-> Some(a.modified.modified_content),
                         reasons |-> a.modified.reasons
                                        \o <<<<"Agent in cooldown period", "">>>>,
                         suggestions |-> <<"Take a break, touch grass">>],
             agent_scores |-> updated.agent_scores,
             global_chaos_level |-> updated.global_chaos_level]
       ELSE
       LET action == determine_action(agent_score, a.chaos_score, a.quality_score, rating,
                                      updated.global_chaos_level)
       IN [result |-> [action |-> action, rating |-> rating,
                       modified_content |-> IF action # "REJECT"
                                            THEN Some(a.modified.modified_content)
                                            ELSE None,
                       reasons |-> a.modified.reasons,
                       suggestions |->
                           (IF a.chaos_score > 70 * ScoreScale
                            THEN <<"Consider toning down the chaos a bit">> ELSE <<>>)
                           \o (IF a.quality_score < 30 * ScoreScale
                               THEN <<"Try adding more substance to your posts">> ELSE <<>>)],
           agent_scores |-> updated.agent_scores,
           global_chaos_level |-> updated.global_chaos_level]

\* moderate_content with the scores updated before the blocked patterns are looked for
moderate_content_scoring_blocked(content, agent_id, scores, global, t) ==
    [moderate_analysed(analysis[content], agent_id, scores, global, t) EXCEPT
        !.agent_scores = update_agent_score(scores, global, agent_id,
                                            analysis[content].chaos_score,
                                            analysis[content].quality_score).agent_scores,
        !.global_chaos_level = update_agent_score(scores, global, agent_id,
                                                  analysis[content].chaos_score,
                                                  analysis[content].quality_score).global_chaos_level]

\* moderate_content(content, agent_id) at time t
moderate_content(content, agent_id, scores, global, t) ==
    moderate_analysed(analysis[content], agent_id, scores, global, t)

\* duration_minutes of apply_cooldown, in clock ticks
Durations == {1, 3}

\* the agent's AgentBehaviorScore, or None for an agent the moderator does not know
known_score(scores, agent_id) ==
    IF agent_id \in DOMAIN scores THEN Some(scores[agent_id]) ELSE None

\* the record of a moderate_content call: its arguments, the state it was made in,
\* and what it returned and left (out)
call_record(content, agent_id, scores, global, t, out) ==
    [op |-> "moderate_content", agent_id |-> agent_id, content |-> content, at |-> t,
     prior_scores |-> scores, prior_global |-> global,
     result |-> out.result,
     agent_scores |-> out.agent_scores, global_chaos_level |-> out.global_chaos_level]

moderate_call(content, agent_id, scores, global, t) ==
    call_record(content, agent_id, scores, global, t,
                moderate_content(content, agent_id, scores, global, t))

Moderate(agent_id, content) ==
    /\ steps < MaxModSteps
    /\ \E call \in {moderate_call(content, agent_id, agent_scores, global_chaos_level, now)} :
          /\ agent_scores' = call.agent_scores
          /\ global_chaos_level' = call.global_chaos_level
          /\ last' = call
    /\ steps' = steps + 1
    /\ UNCHANGED <<now, driftVars, pairVars, relVars, concVars, memVars, runVars>>

ApplyCooldown(agent_id, duration_minutes) ==
    /\ steps < MaxModSteps
    /\ agent_scores' = cooldown_applied(agent_scores, agent_id, duration_minutes, now)
    /\ last' = [op |-> "apply_cooldown", agent_id |-> agent_id,
                duration_minutes |-> duration_minutes, at |-> now,
                prior_scores |-> agent_scores, prior_global |-> global_chaos_level]
    /\ steps' = steps + 1
    /\ UNCHANGED <<now, global_chaos_level, driftVars, pairVars, relVars, concVars, memVars, runVars>>

InitMod ==
    /\ now = 0
    /\ steps = 0
    /\ last = NoCall
    /\ state_files = << >>
    /\ agent_scores = << >>
    /\ global_chaos_level = 50 * GlobalScale
    /\ moderator2 = << >>
    /\ rel_files = << >>
    /\ pc = << >>
    /\ loaded = << >>
    /\ memory_files = << >>
    /\ incident_files = << >>
    /\ runner = << >>

ModerateContent == \E a \in ModAgents, c \in Contents : Moderate(a, c)

Cooldown == \E a \in ModAgents, d \in Durations : ApplyCooldown(a, d)

NextMod == ModerateContent \/ Cooldown \/ Tick

SpecMod == InitMod /\ [][NextMod]_vars

----------------------------------------------------------------------------
\* Properties of the moderator

\* the call recorded in l was made before the cooldown-expiry of its agent
CalledInCooldown(l) ==
    /\ l.op = "moderate_content"
    /\ l.agent_id \in DOMAIN l.prior_scores
    /\ l.prior_scores[l.agent_id].cooldown_until # None
    /\ l.at < l.prior_scores[l.agent_id].cooldown_until[1]

\* C2: for every agent and every content, a moderate_content call made while
\* now < the agent's cooldown_until returns action HOLD
C2_CooldownAlwaysHolds ==
    CalledInCooldown(last) => last.result.action = "HOLD"

\* the contents that match none of the patterns "security", "dangerous_command"
\* and "mass_ping"
UnblockedContents == {ContentRmRfPlease, ContentOK, ContentGoodPoint, ContentYolo, ContentDamn}

\* C2 (amended): a moderate_content call made while now < the agent's cooldown_until,
\* with a content that matches no blocked pattern, returns action HOLD and rating
\* FLAGGED, and still updates the agent's rolling scores
C2_CooldownHoldsUnblocked ==
    (CalledInCooldown(last) /\ last.content \in UnblockedContents)
        => /\ last.result.action = "HOLD"
           /\ last.result.rating = "FLAGGED"
           /\ last.result.modified_content # None

C2_Witness ==
    /\ CalledInCooldown(last)
    /\ last.content = ContentGoodPoint
    /\ last.result.action = "HOLD"

\* the contents that hold a dangerous command, a security-sensitive term or a mass
\* mention
HardBlockedContents == {ContentRmRfPlease, ContentRmRfHome, ContentHackInto, ContentEveryone}

\* C3: every moderate_content call whose content holds a hard-blocked pattern returns
\* action REJECT, rating BLOCKED and no modified content, whatever the scores, the
\* cooldown and the global chaos level are
C3_BlockedAlwaysRejected ==
    (last.op = "moderate_content" /\ last.content \in HardBlockedContents)
        => /\ last.result.action = "REJECT"
           /\ last.result.rating = "BLOCKED"
           /\ last.result.modified_content = None

----------------------------------------------------------------------------
\* A moderator with a history: moderate_content is called on a ContentModerator
\* that earlier calls have left with rolling scores and warnings

\* apply_cooldown calls in the history of a warned agent
SeedWarnings == 6

RECURSIVE posts(_, _, _, _)
\* the agent_scores and global_chaos_level after n more moderate_content calls of
\* agent_id with content, made at time 0 on the moderator m
posts(m, agent_id, content, n) ==
    IF n = 0 THEN m
    ELSE posts([agent_scores |-> moderate_content(content, agent_id, m.agent_scores,
                                                  m.global_chaos_level, 0).agent_scores,
                global_chaos_level |-> moderate_content(content, agent_id, m.agent_scores,
                                                        m.global_chaos_level, 0).global_chaos_level],
               agent_id, content, n - 1)

RECURSIVE cooled(_, _, _)
\* the moderator m after n more apply_cooldown calls on agent_id, made at time 0
cooled(m, agent_id, n) ==
    IF n = 0 THEN m
    ELSE cooled([m EXCEPT !.agent_scores = cooldown_applied(@, agent_id, 1, 0)],
                agent_id, n - 1)

\* ContentModerator()
new_moderator == [agent_scores |-> << >>, global_chaos_level |-> 50 * GlobalScale]

\* the moderators the calls are made on: a new one, one whose only agent posted
\* chaos, one where a second agent posted calmly as well, one whose agent posted
\* low-effort replies, and one whose agent was cooled down repeatedly
SeedHistories ==
    {new_moderator,
     posts(new_moderator, <<"a">>, ContentChaosStorm, MaxModSteps),
     posts(posts(new_moderator, <<"a">>, ContentChaosStorm, MaxModSteps),
           <<"b">>, ContentGoodPoint, 1),
     posts(new_moderator, <<"a">>, ContentOK, MaxModSteps - 1),
     cooled(new_moderator, <<"a">>, SeedWarnings)}

InitTable ==
    /\ now \in {0, 1}
    /\ steps = 0
    /\ last = NoCall
    /\ state_files = << >>
    /\ \E m \in SeedHistories :
          /\ agent_scores = m.agent_scores
          /\ global_chaos_level = m.global_chaos_level
    /\ moderator2 = << >>
    /\ rel_files = << >>
    /\ pc = << >>
    /\ loaded = << >>
    /\ memory_files = << >>
    /\ incident_files = << >>
    /\ runner = << >>

ModerateWithHistory(agent_id, content) ==
    /\ steps < MaxTableSteps
    /\ \E call \in {moderate_call(content, agent_id, agent_scores, global_chaos_level, now)} :
          /\ agent_scores' = call.agent_scores
          /\ global_chaos_level' = call.global_chaos_level
          /\ last' = call
    /\ steps' = steps + 1
    /\ UNCHANGED <<now, driftVars, pairVars, relVars, concVars, memVars, runVars>>

ModerateTable == \E a \in ModAgents, c \in TableContents : ModerateWithHistory(a, c)

NextTable == ModerateTable \/ Tick

SpecModTable == InitTable /\ [][NextTable]_vars

\* the call recorded in l is a moderate_content call with a content that matches no
\* blocked pattern, made while its agent was not in cooldown
TableCall(l) ==
    /\ l.op = "moderate_content"
    /\ analysis[l.content].blocked = None
    /\ ~CalledInCooldown(l)

\* the decision table of the claim, read on the call recorded in l: the scores of
\* the content, and the agent's rolling scores, warning count and the global chaos
\* level as the call leaves them
claimed_table(l) ==
    LET chaos == analysis[l.content].chaos_score
        quality == analysis[l.content].quality_score
        rolling == l.agent_scores[l.agent_id]
        tightened == l.global_chaos_level > 75 * GlobalScale
        poor == chaos > 50 * ScoreScale \/ quality < 40 * ScoreScale
    IN CASE tightened /\ chaos > 60 * ScoreScale -> "WARN"
         [] tightened /\ chaos <= 60 * ScoreScale /\ quality < 40 * ScoreScale -> "HOLD"
         [] OTHER ->
            CASE rolling.warning_count > 5 /\ poor -> "HOLD"
              [] OTHER ->
                 CASE rolling.chaos_score > 80 * ScoreScale
                          \/ rolling.quality_score < 30 * ScoreScale -> "WARN"
                   [] OTHER ->
                      CASE quality > 50 * ScoreScale
                               \/ (chaos < 60 * ScoreScale /\ quality > 30 * ScoreScale)
                                   -> "APPROVE"
                        [] OTHER -> "MODIFY"

\* C11: for a content that matches no hard-blocked pattern, from an agent not in
\* cooldown, moderate_content returns the action of the decision table: global chaos
\* above 75 with content chaos above 60 gives WARN, else with quality below 40 HOLD;
\* then more than 5 warnings with poor current scores gives HOLD; then rolling chaos
\* above 80 or rolling quality below 30 gives WARN; then quality above 50, or chaos
\* below 60 and quality above 30, gives APPROVE; otherwise MODIFY
C11_ActionIsDecisionTable ==
    TableCall(last) => last.result.action = claimed_table(last)

\* C11 (amended): the decision table applies to a content that no mild-profanity
\* substitution rewrote; a rewritten content (rating MILD) skips the table and gets
\* APPROVE when its quality is above 40 and MODIFY otherwise
C11_ActionIsTableUnlessRewritten ==
    TableCall(last) =>
        IF analysis[last.content].modified.reasons = <<>>
        THEN /\ last.result.rating = "SAFE"
             /\ last.result.action = claimed_table(last)
        ELSE /\ last.result.rating = "MILD"
             /\ last.result.action = IF analysis[last.content].quality_score > 40 * ScoreScale
                                     THEN "APPROVE" ELSE "MODIFY"

\* an agent at more than 5 warnings, out of cooldown, posts a low-effort reply and
\* is held
C11_Witness ==
    /\ TableCall(last)
    /\ last.content = ContentOK
    /\ last.agent_scores[last.agent_id].warning_count > 5
    /\ last.global_chaos_level <= 75 * GlobalScale
    /\ last.result.action = "HOLD"

----------------------------------------------------------------------------
\* Two moderators side by side: moderate_content is compared on calls that two
\* ContentModerator objects receive

\* calls the first moderator receives
MaxPairCalls == 2

PairContents == {ContentOK, ContentRmRfHome}

\* the second moderator is new, or has put one agent in cooldown at time 0
SeedModerators ==
    {[agent_scores |-> << >>, global_chaos_level |-> 50 * GlobalScale]}
    \cup {[agent_scores |-> cooldown_applied(<< >>, a, d, 0),
           global_chaos_level |-> 50 * GlobalScale] : a \in ModAgents, d \in Durations}

InitPair ==
    /\ now = 0
    /\ steps = 0
    /\ last = NoCall
    /\ state_files = << >>
    /\ agent_scores = << >>
    /\ global_chaos_level = 50 * GlobalScale
    /\ moderator2 \in {[agent_scores |-> m.agent_scores,
                        global_chaos_level |-> m.global_chaos_level,
                        now |-> 0,
                        last |-> NoCall] : m \in SeedModerators}
    /\ rel_files = << >>
    /\ pc = << >>
    /\ loaded = << >>
    /\ memory_files = << >>
    /\ incident_files = << >>
    /\ runner = << >>

ModeratePair ==
    \E a \in ModAgents, c \in PairContents : steps < MaxPairCalls /\ Moderate(a, c)

CooldownPair ==
    \E a \in ModAgents, d \in Durations : steps < MaxPairCalls /\ ApplyCooldown(a, d)

\* the second moderator receives its one moderate_content call
Moderate2 ==
    \E a \in ModAgents, c \in PairContents :
        /\ moderator2.last = NoCall
        /\ \E call \in {moderate_call(c, a, moderator2.agent_scores,
                                       moderator2.global_chaos_level, moderator2.now)} :
              moderator2' = [moderator2 EXCEPT !.agent_scores = call.agent_scores,
                                               !.global_chaos_level = call.global_chaos_level,
                                               !.last = call]
        /\ UNCHANGED <<commonVars, driftVars, modVars, relVars, concVars, memVars, runVars>>

\* time passes for the second moderator
Tick2 ==
    /\ moderator2.now < MaxTime
    /\ moderator2.last = NoCall
    /\ moderator2' = [moderator2 EXCEPT !.now = @ + 1]
    /\ UNCHANGED <<commonVars, driftVars, modVars, relVars, concVars, memVars, runVars>>

NextPair == ModeratePair \/ CooldownPair \/ Tick \/ Moderate2 \/ Tick2

SpecModPair == InitPair /\ [][NextPair]_vars

\* both moderators' last call is a moderate_content call with the same content and
\* agent_id, made from the same AgentBehaviorScore of that agent and the same
\* global_chaos_level
SameCall ==
    /\ last.op = "moderate_content"
    /\ moderator2.last.op = "moderate_content"
    /\ last.content = moderator2.last.content
    /\ last.agent_id = moderator2.last.agent_id
    /\ known_score(last.prior_scores, last.agent_id)
           = known_score(moderator2.last.prior_scores, last.agent_id)
    /\ last.prior_global = moderator2.last.prior_global

\* the two calls returned the same ModerationResult and left the same
\* AgentBehaviorScore of the agent and the same global_chaos_level
SameOutcome ==
    /\ last.result = moderator2.last.result
    /\ known_score(last.agent_scores, last.agent_id)
           = known_score(moderator2.last.agent_scores, last.agent_id)
    /\ last.global_chaos_level = moderator2.last.global_chaos_level

\* C10: two moderate_content calls with the same content and agent_id, from the same
\* AgentBehaviorScore of that agent and the same global_chaos_level, return the same
\* result and leave the same score and global_chaos_level; nothing else has influence
C10_ModerateDeterministic == SameCall => SameOutcome

\* C10 (amended): two moderate_content calls with the same content and agent_id, from
\* the same agent_scores of all agents and the same global_chaos_level, both made
\* before or both made not before the agent's cooldown_until, return the same result
\* and leave the same agent_scores and global_chaos_level
C10_DeterministicGivenAllScores ==
    (/\ SameCall
     /\ last.prior_scores = moderator2.last.prior_scores
     /\ CalledInCooldown(last) <=> CalledInCooldown(moderator2.last))
        => /\ SameOutcome
           /\ last.agent_scores = moderator2.last.agent_scores

C10_Witness ==
    /\ SameCall
    /\ last.prior_scores = moderator2.last.prior_scores
    /\ last.prior_scores # << >>
    /\ ~CalledInCooldown(last)
    /\ ~CalledInCooldown(moderator2.last)
    /\ last.at # moderator2.last.at
    /\ last.result.action = "MODIFY"
    /\ SameOutcome

----------------------------------------------------------------------------
\* FileMemorySystem: the relationship files
\*
\* A sentiment is an integer of tenths and an affinity an integer of hundredths, so
\* that interaction_sentiment * 0.1 is the sentiment's number read as hundredths.
\* An inside joke and an incident id are integers.  rel_files maps the name of a
\* relationship file (without ".json") to the RelationshipMemory it stores.

\* Keep only last 100 affinity records
MaxAffinityHistory == 100

\* Keep max 20 inside jokes
MaxInsideJokes == 20

\* ord() of the characters of agent ids
CodePoint(ch) ==
    CASE ch = "_" -> 95
      [] ch = "a" -> 97
      [] ch = "b" -> 98
      [] ch = "c" -> 99

RECURSIVE StrLess(_, _)
\* x < y for two str
StrLess(x, y) ==
    IF x = << >> THEN y # << >>
    ELSE IF y = << >> THEN FALSE
    ELSE IF x[1] = y[1] THEN StrLess(Tail(x), Tail(y))
    ELSE CodePoint(x[1]) < CodePoint(y[1])

\* sorted([agent_id, other_agent_id])
sorted_pair(agent_id, other_agent_id) ==
    IF StrLess(other_agent_id, agent_id)
    THEN <<other_agent_id, agent_id>>
    ELSE <<agent_id, other_agent_id>>

\* "_".join(ids) for a list of two ids
join_pair(ids) == ids[1] \o <<"_">> \o ids[2]

\* the relationship id built from the two ids in the order of the arguments
rel_id_unsorted(agent_id, other_agent_id) == join_pair(<<agent_id, other_agent_id>>)

\* rel_id = "_".join(sorted([agent_id, other_agent_id]))
rel_id(agent_id, other_agent_id) == join_pair(sorted_pair(agent_id, other_agent_id))

\* the RelationshipMemory update_relationship creates when the file does not exist
new_relationship(agent_id, other_agent_id) ==
    [agent_id |-> agent_id,
     other_agent_id |-> other_agent_id,
     affinity_history |-> << >>,
     interaction_count |-> 0,
     positive_interactions |-> 0,
     negative_interactions |-> 0,
     inside_jokes |-> << >>,
     shared_incidents |-> << >>]

\* "Load existing relationship or create new"
load_relationship(files, agent_id, other_agent_id) ==
    IF rel_id(agent_id, other_agent_id) \in DOMAIN files
    THEN files[rel_id(agent_id, other_agent_id)]
    ELSE new_relationship(agent_id, other_agent_id)

\* x in list
InList(x, list) == \E i \in 1..Len(list) : list[i] = x

\* list[:n], the oldest entries
FirstN(list, n) ==
    IF Len(list) > n THEN SubSeq(list, 1, n) ELSE list

\* list[-n:]
LastN(list, n) ==
    IF Len(list) > n THEN SubSeq(list, Len(list) - n + 1, Len(list)) ELSE list

\* current_affinity
current_affinity(relationship) ==
    IF relationship.affinity_history # << >>
    THEN relationship.affinity_history[Len(relationship.affinity_history)][2]
    ELSE 0

\* the new affinity without max and min
new_affinity_unclamped(relationship, interaction_sentiment) ==
    current_affinity(relationship) + interaction_sentiment

\* new_affinity = max(-1.0, min(1.0, current_affinity + affinity_change))
new_affinity(relationship, interaction_sentiment) ==
    Max(-100, Min(100, current_affinity(relationship) + interaction_sentiment))

\* the RelationshipMemory with a sentiment of exactly 0.2 or -0.2 counted as
\* positive or negative
updated_relationship_inclusive(relationship, interaction_sentiment, shared_incident, inside_joke, t) ==
    [relationship EXCEPT
        !.interaction_count = @ + 1,
        !.positive_interactions = IF interaction_sentiment >= 2 THEN @ + 1 ELSE @,
        !.negative_interactions =
            IF interaction_sentiment >= 2 THEN @
            ELSE IF interaction_sentiment <= -2 THEN @ + 1 ELSE @,
        !.affinity_history =
            LastN(Append(@, <<t, new_affinity(relationship, interaction_sentiment)>>),
                  MaxAffinityHistory),
        !.shared_incidents =
            IF shared_incident # None /\ ~InList(shared_incident[1], @)
            THEN Append(@, shared_incident[1]) ELSE @,
        !.inside_jokes =
            IF inside_joke # None /\ ~InList(inside_joke[1], @)
            THEN LastN(Append(@, inside_joke[1]), MaxInsideJokes) ELSE @]

\* the RelationshipMemory that update_relationship writes, from the one it loaded
updated_relationship(relationship, interaction_sentiment, shared_incident, inside_joke, t) ==
    [relationship EXCEPT
        !.interaction_count = @ + 1,
        !.positive_interactions = IF interaction_sentiment > 2 THEN @ + 1 ELSE @,
        !.negative_interactions =
            IF interaction_sentiment > 2 THEN @
            ELSE IF interaction_sentiment < -2 THEN @ + 1 ELSE @,
        !.affinity_history =
            LastN(Append(@, <<t, new_affinity(relationship, interaction_sentiment)>>),
                  MaxAffinityHistory),
        !.shared_incidents =
            IF shared_incident # None /\ ~InList(shared_incident[1], @)
            THEN Append(@, shared_incident[1]) ELSE @,
        !.inside_jokes =
            IF inside_joke # None /\ ~InList(inside_joke[1], @)
            THEN LastN(Append(@, inside_joke[1]), MaxInsideJokes) ELSE @]

\* json.dump(asdict(relationship), f) into the file rel_id
write_relationship(files, id, relationship) ==
    (id :> relationship) @@ files

\* update_relationship at time t: the relationship files it leaves
update_relationship(files, agent_id, other_agent_id, interaction_sentiment, shared_incident, inside_joke, t) ==
    write_relationship(files, rel_id(agent_id, other_agent_id),
        updated_relationship(load_relationship(files, agent_id, other_agent_id),
                             interaction_sentiment, shared_incident, inside_joke, t))

\* get_relationship
get_relationship(files, agent_id, other_agent_id) ==
    IF rel_id(agent_id, other_agent_id) \notin DOMAIN files
    THEN None
    ELSE Some(files[rel_id(agent_id, other_agent_id)])

\* calls of update_relationship in one run
MaxRelSteps == 2

\* updates the seeded pair has been through, and how many of them made a new joke
SeedUpdates == 100
SeedJokes == 20

RelAgents == {<<"a">>, <<"b">>, <<"c">>}

\* -1.0 and 0.3
RelSentiments == {-10, 3}

RelIncidents == {None, Some(1)}

\* no joke, a joke the seeded pair has, and a joke it does not have
RelJokes == {None, Some(1), Some(0)}

RECURSIVE replay_updates(_, _, _)
\* the files after the calls number first .. final of the seeded pair's history:
\* call k is update_relationship("a", "b", 0.3, inside_joke=joke) at the time
\* k - SeedUpdates - 1, with a joke of its own if k <= SeedJokes.  The first half of
\* the calls is replayed to its end before the second half begins.
replay_updates(files, first, final) ==
    IF first > final THEN files
    ELSE IF first = final
    THEN update_relationship(files, <<"a">>, <<"b">>, 3, None,
                             IF first <= SeedJokes THEN Some(first) ELSE None,
                             first - SeedUpdates - 1)
    ELSE CHOOSE out \in {replay_updates(half, (first + final) \div 2 + 1, final) :
                            half \in {replay_updates(files, first, (first + final) \div 2)}} :
             TRUE

\* the files after n calls on the pair
after_updates(n) == replay_updates(<< >>, 1, n)

SeedRelFiles == {<< >>, after_updates(SeedUpdates)}

\* update_relationship(agent_id, other_agent_id, interaction_sentiment, shared_incident,
\* inside_joke); the clock moves on with every call
UpdateRelationshipCall(agent_id, other_agent_id, interaction_sentiment, shared_incident, inside_joke) ==
    /\ steps < MaxRelSteps
    /\ rel_files' = update_relationship(rel_files, agent_id, other_agent_id,
                                        interaction_sentiment, shared_incident,
                                        inside_joke, now)
    /\ last' = [op |-> "update_relationship",
                agent_id |-> agent_id,
                other_agent_id |-> other_agent_id,
                interaction_sentiment |-> interaction_sentiment,
                shared_incident |-> shared_incident,
                inside_joke |-> inside_joke,
                at |-> now,
                prior |-> rel_files]
    /\ steps' = steps + 1
    /\ now' = now + 1
    /\ UNCHANGED <<driftVars, modVars, pairVars, concVars, memVars, runVars>>

InitRel ==
    /\ now = 0
    /\ steps = 0
    /\ last = NoCall
    /\ state_files = << >>
    /\ agent_scores = << >>
    /\ global_chaos_level = 0
    /\ moderator2 = << >>
    /\ rel_files \in SeedRelFiles
    /\ pc = << >>
    /\ loaded = << >>
    /\ memory_files = << >>
    /\ incident_files = << >>
    /\ runner = << >>

\* _update_relationships calls update_relationship for two different agents
UpdateRelationship ==
    \E a \in RelAgents, s \in RelSentiments, i \in RelIncidents, j \in RelJokes :
        \E b \in RelAgents \ {a} :
            UpdateRelationshipCall(a, b, s, i, j)

NextRel == UpdateRelationship

SpecRel == InitRel /\ [][NextRel]_vars

----------------------------------------------------------------------------
\* Properties of the relationship files

\* the affinity a RelationshipMemory ends with, 0.0 for none
LastAffinity(relationship) ==
    IF relationship = None \/ relationship[1].affinity_history = << >> THEN 0
    ELSE relationship[1].affinity_history[Len(relationship[1].affinity_history)][2]

\* list is what full becomes when only its newest limit entries are kept
KeepsNewest(list, full, limit) ==
    /\ Len(list) = Min(Len(full), limit)
    /\ \A i \in 1..Len(list) : list[i] = full[i + (Len(full) - Len(list))]

\* C5: get_relationship(A, B) and get_relationship(B, A) return the same record after
\* any sequence of update_relationship calls in either argument order, and a call in
\* either order updates that one record
C5_RelationshipSymmetric ==
    /\ \A a \in RelAgents, b \in RelAgents :
           get_relationship(rel_files, a, b) = get_relationship(rel_files, b, a)
    /\ last.op = "update_relationship" =>
           \E before \in {get_relationship(last.prior, last.other_agent_id, last.agent_id)},
              after \in {get_relationship(rel_files, last.other_agent_id, last.agent_id)} :
               /\ after # None
               /\ after[1].interaction_count
                      = (IF before = None THEN 0 ELSE before[1].interaction_count) + 1
               /\ Cardinality(DOMAIN rel_files)
                      = Cardinality(DOMAIN last.prior) + (IF before = None THEN 1 ELSE 0)

C5_Witness ==
    /\ last.op = "update_relationship"
    /\ last.agent_id = <<"b">>
    /\ last.other_agent_id = <<"a">>
    /\ get_relationship(last.prior, <<"a">>, <<"b">>) # None
    /\ get_relationship(rel_files, <<"a">>, <<"b">>)[1].interaction_count
           = get_relationship(last.prior, <<"a">>, <<"b">>)[1].interaction_count + 1
    /\ get_relationship(rel_files, <<"a">>, <<"b">>)[1].agent_id = <<"a">>

\* C6: every update_relationship call appends the affinity
\* clamp(previous affinity + sentiment * 0.1, -1, 1), the previous affinity being the
\* last entry of the pair's series or 0 for a new pair; every recorded affinity is in
\* [-1, 1]
C6_AffinityDampedAndClamped ==
    /\ last.op = "update_relationship" =>
           LastAffinity(get_relationship(rel_files, last.agent_id, last.other_agent_id))
               = Clamp(-100, 100,
                       LastAffinity(get_relationship(last.prior, last.agent_id,
                                                     last.other_agent_id))
                           + last.interaction_sentiment)
    /\ \A k \in DOMAIN rel_files :
           \A i \in 1..Len(rel_files[k].affinity_history) :
               /\ rel_files[k].affinity_history[i][2] >= -100
               /\ rel_files[k].affinity_history[i][2] <= 100

C6_Witness ==
    /\ last.op = "update_relationship"
    /\ last.interaction_sentiment = 3
    /\ LastAffinity(get_relationship(last.prior, last.agent_id, last.other_agent_id)) = 100
    /\ LastAffinity(get_relationship(rel_files, last.agent_id, last.other_agent_id)) = 100

\* C7: after any sequence of update_relationship calls the affinity series has at most
\* 100 entries and the inside jokes at most 20, and a call that would exceed a bound
\* drops the oldest entries and keeps the newest
C7_HistoriesBounded ==
    /\ \A k \in DOMAIN rel_files :
           /\ Len(rel_files[k].affinity_history) <= MaxAffinityHistory
           /\ Len(rel_files[k].inside_jokes) <= MaxInsideJokes
    /\ last.op = "update_relationship" =>
           \E before \in {load_relationship(last.prior, last.agent_id, last.other_agent_id)},
              after \in {load_relationship(rel_files, last.agent_id, last.other_agent_id)} :
               /\ after.affinity_history # << >>
               /\ KeepsNewest(after.affinity_history,
                              Append(before.affinity_history,
                                     after.affinity_history[Len(after.affinity_history)]),
                              MaxAffinityHistory)
               /\ after.affinity_history[Len(after.affinity_history)][1] = last.at
               /\ IF last.inside_joke # None
                     /\ ~InList(last.inside_joke[1], before.inside_jokes)
                  THEN KeepsNewest(after.inside_jokes,
                                   Append(before.inside_jokes, last.inside_joke[1]),
                                   MaxInsideJokes)
                  ELSE after.inside_jokes = before.inside_jokes

C7_Witness ==
    /\ last.op = "update_relationship"
    /\ last.inside_joke = Some(0)
    /\ Len(load_relationship(last.prior, <<"a">>, <<"b">>).inside_jokes) = MaxInsideJokes
    /\ Len(load_relationship(last.prior, <<"a">>, <<"b">>).affinity_history)
           = MaxAffinityHistory
    /\ load_relationship(rel_files, <<"a">>, <<"b">>).inside_jokes[MaxInsideJokes] = 0
    /\ load_relationship(rel_files, <<"a">>, <<"b">>).inside_jokes[1]
           = load_relationship(last.prior, <<"a">>, <<"b">>).inside_jokes[2]
    /\ load_relationship(rel_files, <<"a">>, <<"b">>).affinity_history[1]
           = load_relationship(last.prior, <<"a">>, <<"b">>).affinity_history[2]
    /\ Len(load_relationship(rel_files, <<"a">>, <<"b">>).affinity_history)
           = MaxAffinityHistory

----------------------------------------------------------------------------
\* Two update_relationship calls on one pair at the same time: each call reads the
\* file, and later writes the file from what it read

Procs == {"p1", "p2"}

\* the pair in both argument orders
ConcPairs == {<< <<"a">>, <<"b">> >>, << <<"b">>, <<"a">> >>}

\* the call of process p reads the file ("Load existing relationship or create new")
Load(p) ==
    /\ pc[p] = "start"
    /\ \E pair \in ConcPairs, s \in RelSentiments, i \in RelIncidents, j \in RelJokes :
           loaded' = [loaded EXCEPT ![p] =
                         [agent_id |-> pair[1],
                          other_agent_id |-> pair[2],
                          interaction_sentiment |-> s,
                          shared_incident |-> i,
                          inside_joke |-> j,
                          relationship |-> load_relationship(rel_files, pair[1], pair[2])]]
    /\ pc' = [pc EXCEPT ![p] = "loaded"]
    /\ UNCHANGED <<commonVars, driftVars, modVars, pairVars, relVars, memVars, runVars>>

\* the call of process p updates what it read and writes the file
Store(p) ==
    /\ pc[p] = "loaded"
    /\ rel_files' =
           write_relationship(rel_files,
               rel_id(loaded[p].agent_id, loaded[p].other_agent_id),
               updated_relationship(loaded[p].relationship,
                                    loaded[p].interaction_sentiment,
                                    loaded[p].shared_incident,
                                    loaded[p].inside_joke, now))
    /\ now' = now + 1
    /\ pc' = [pc EXCEPT ![p] = "done"]
    /\ UNCHANGED <<steps, last, loaded, driftVars, modVars, pairVars, memVars, runVars>>

InitConc ==
    /\ now = 0
    /\ steps = 0
    /\ state_files = << >>
    /\ agent_scores = << >>
    /\ global_chaos_level = 0
    /\ moderator2 = << >>
    /\ rel_files \in SeedRelFiles
    /\ last = [op |-> "none", prior |-> rel_files]
    /\ pc = [p \in Procs |-> "start"]
    /\ loaded = [p \in Procs |-> None]
    /\ memory_files = << >>
    /\ incident_files = << >>
    /\ runner = << >>

LoadStep == \E p \in Procs : Load(p)

StoreStep == \E p \in Procs : Store(p)

NextConc == LoadStep \/ StoreStep

SpecRelConc == InitConc /\ [][NextConc]_vars

\* C4: when two update_relationship calls on one pair interleave their read and write
\* steps, no update is lost: after both the interaction_count has grown by 2 and the
\* affinity series holds one new entry for each call
C4_NoLostUpdate ==
    (\A p \in Procs : pc[p] = "done")
        => \E before \in {load_relationship(last.prior, <<"a">>, <<"b">>)},
              after \in {load_relationship(rel_files, <<"a">>, <<"b">>)} :
               /\ after.interaction_count = before.interaction_count + 2
               /\ Len(before.affinity_history) + 2 <= MaxAffinityHistory
                      => Len(after.affinity_history) = Len(before.affinity_history) + 2

----------------------------------------------------------------------------
\* The response decision: PersonalityManager.should_agent_respond

\* should_agent_respond calls in one run
MaxRespondCalls == 2

\* a number as a fraction n / d with d > 0
Rat(n, d) == [n |-> n, d |-> d]
RatMul(x, y) == Rat(x.n * y.n, x.d * y.d)
RatLess(x, y) == x.n * y.d < y.n * x.d
RatLeq(x, y) == x.n * y.d <= y.n * x.d

\* min(1.0, max(0.0, x))
clamp_probability(x) ==
    IF RatLess(x, Rat(0, 1)) THEN Rat(0, 1)
    ELSE IF RatLess(Rat(1, 1), x) THEN Rat(1, 1)
    ELSE x

\* self.personalities: the fields of each AgentPersonality that the decision reads.
\* "owl" has peak hours and modifiers for three authors, "cat" has no peak hours
personalities ==
    (<<"owl">> :>
        [behavior |-> [response_probability |-> Rat(5, 10), peak_hours |-> <<9, 10>>],
         interests |-> [primary_topics |-> (<<"ai">> :> Rat(9, 10)),
                        trigger_keywords |-> [strong |-> {<<"bug">>}, moderate |-> {<<"meh">>},
                                              avoid |-> {<<"spam">>}]],
         relationships |-> [response_modifiers |->
                               (<<"ally">> :> Rat(30, 10)) @@ (<<"rival">> :> Rat(0, 10))
                                   @@ (<<"troll">> :> Rat(-10, 10))]])
    @@ (<<"cat">> :>
        [behavior |-> [response_probability |-> Rat(10, 10), peak_hours |-> << >>],
         interests |-> [primary_topics |-> << >>,
                        trigger_keywords |-> [strong |-> {}, moderate |-> {}, avoid |-> {}]],
         relationships |-> [response_modifiers |-> << >>]])

\* get_personality
get_personality(agent_id) ==
    IF agent_id \in DOMAIN personalities THEN Some(personalities[agent_id]) ELSE None

RECURSIVE topics_modifier(_, _, _)
\* the first loop of _calculate_interest_modifier from topic k on
topics_modifier(interests, topics, k) ==
    IF k > Len(topics) THEN Rat(1, 1)
    ELSE RatMul(IF topics[k] \in DOMAIN interests.primary_topics
                THEN Rat(2 * interests.primary_topics[topics[k]].d
                             + interests.primary_topics[topics[k]].n,
                         2 * interests.primary_topics[topics[k]].d)
                ELSE Rat(1, 1),
                topics_modifier(interests, topics, k + 1))

RECURSIVE keywords_modifier(_, _, _)
\* the second loop of _calculate_interest_modifier from keyword k on
keywords_modifier(interests, keywords, k) ==
    IF k > Len(keywords) THEN Rat(1, 1)
    ELSE RatMul(IF keywords[k] \in interests.trigger_keywords.strong THEN Rat(15, 10)
                ELSE IF keywords[k] \in interests.trigger_keywords.moderate THEN Rat(12, 10)
                ELSE IF keywords[k] \in interests.trigger_keywords.avoid THEN Rat(5, 10)
                ELSE Rat(1, 1),
                keywords_modifier(interests, keywords, k + 1))

\* _calculate_interest_modifier
calculate_interest_modifier(interests, topics, keywords) ==
    RatMul(topics_modifier(interests, topics, 1), keywords_modifier(interests, keywords, 1))

\* _calculate_relationship_modifier
calculate_relationship_modifier(relationships, author_agent_id) ==
    IF author_agent_id = None THEN Rat(1, 1)
    ELSE IF author_agent_id[1] \in DOMAIN relationships.response_modifiers
    THEN relationships.response_modifiers[author_agent_id[1]]
    ELSE Rat(1, 1)

\* _calculate_time_modifier: the modifier, or the IndexError that peak_hours[0]
\* raises on an empty list
calculate_time_modifier(peak_hours, current_hour) ==
    IF \E k \in 1..Len(peak_hours) : peak_hours[k] = current_hour
    THEN [raised |-> None, value |-> Rat(13, 10)]
    ELSE IF Len(peak_hours) = 0
    THEN [raised |-> Some("IndexError"), value |-> Rat(0, 1)]
    ELSE IF Abs(current_hour - peak_hours[1]) <= 2
    THEN [raised |-> None, value |-> Rat(11, 10)]
    ELSE [raised |-> None, value |-> Rat(8, 10)]

\* the context of a call: topics, keywords, author_agent_id and current_hour, each
\* present or not
RespondContexts ==
    [topics : {None, Some(<< <<"ai">> >>), Some(<< <<"cats">> >>)},
     keywords : {None, Some(<< <<"bug">> >>), Some(<< <<"meh">> >>), Some(<< <<"spam">>, <<"other">> >>)},
     author_agent_id : {None, Some(<<"ally">>), Some(<<"rival">>), Some(<<"troll">>)},
     current_hour : {None, Some(9), Some(11)}]

\* context.get(key, default)
context_get(field, default) == IF field = None THEN default ELSE field[1]

\* the values random.random() returns: numbers of [0, 1)
RandomDraws == {Rat(0, 10), Rat(4, 10), Rat(9, 10)}

RespondAgents == {<<"owl">>, <<"cat">>, <<"ghost">>}

\* base_probability * interest_modifier * relationship_modifier * time_modifier
final_product(personality, context, time_modifier) ==
    RatMul(RatMul(personality.behavior.response_probability,
                  calculate_interest_modifier(personality.interests,
                                              context_get(context.topics, << >>),
                                              context_get(context.keywords, << >>))),
           RatMul(calculate_relationship_modifier(personality.relationships,
                                                  context.author_agent_id),
                  time_modifier))

\* should_agent_respond(agent_id, context) when random.random() returns draw: the
\* exception it raises, or the pair it returns
should_agent_respond(agent_id, context, draw) ==
    IF get_personality(agent_id) = None
    THEN [raised |-> None, should_respond |-> FALSE, probability |-> Rat(0, 1), drew |-> FALSE]
    ELSE IF calculate_time_modifier(personalities[agent_id].behavior.peak_hours,
                                    context_get(context.current_hour, 12)).raised # None
    THEN [raised |-> Some("IndexError"), should_respond |-> FALSE, probability |-> Rat(0, 1),
          drew |-> FALSE]
    ELSE [raised |-> None,
          should_respond |->
              RatLess(draw, clamp_probability(final_product(personalities[agent_id], context,
                  calculate_time_modifier(personalities[agent_id].behavior.peak_hours,
                                          context_get(context.current_hour, 12)).value))),
          probability |->
              clamp_probability(final_product(personalities[agent_id], context,
                  calculate_time_modifier(personalities[agent_id].behavior.peak_hours,
                                          context_get(context.current_hour, 12)).value)),
          drew |-> TRUE]

ShouldAgentRespond(agent_id, context, draw) ==
    /\ steps < MaxRespondCalls
    /\ last' = [op |-> "should_agent_respond", agent_id |-> agent_id, context |-> context,
                draw |-> draw, result |-> should_agent_respond(agent_id, context, draw)]
    /\ steps' = steps + 1
    /\ UNCHANGED <<now, driftVars, modVars, pairVars, relVars, concVars, memVars, runVars>>

InitRespond ==
    /\ now = 0
    /\ steps = 0
    /\ last = NoCall
    /\ state_files = << >>
    /\ agent_scores = << >>
    /\ global_chaos_level = 0
    /\ moderator2 = << >>
    /\ rel_files = << >>
    /\ pc = << >>
    /\ loaded = << >>
    /\ memory_files = << >>
    /\ incident_files = << >>
    /\ runner = << >>

Respond == \E a \in RespondAgents, c \in RespondContexts, d \in RandomDraws : ShouldAgentRespond(a, c, d)

NextRespond == Respond

SpecRespond == InitRespond /\ [][NextRespond]_vars

\* the probability the claim names for the call recorded in l: the product of the
\* base probability and the three modifiers, clamped to [0, 1]
claimed_probability(l) ==
    clamp_probability(
        RatMul(RatMul(personalities[l.agent_id].behavior.response_probability,
                      calculate_interest_modifier(personalities[l.agent_id].interests,
                                                  context_get(l.context.topics, << >>),
                                                  context_get(l.context.keywords, << >>))),
               RatMul(calculate_relationship_modifier(personalities[l.agent_id].relationships,
                                                      l.context.author_agent_id),
                      calculate_time_modifier(personalities[l.agent_id].behavior.peak_hours,
                                              context_get(l.context.current_hour, 12)).value)))

\* C12: every should_agent_respond call, for every agent and context, returns a
\* probability within [0, 1] that for a configured agent is the clamped product of
\* base probability, interest, relationship and time-of-day modifier, and a
\* decision that is true exactly when the random draw is below that probability
C12_ProbabilityAndDecision ==
    last.op = "should_agent_respond"
        => /\ last.result.raised = None
           /\ RatLeq(Rat(0, 1), last.result.probability)
           /\ RatLeq(last.result.probability, Rat(1, 1))
           /\ last.result.should_respond = RatLess(last.draw, last.result.probability)
           /\ last.agent_id \in DOMAIN personalities
                 => last.result.probability = claimed_probability(last)

----------------------------------------------------------------------------
\* The agent runners: the top-level loop of main() over EnhancedAgentRunner and
\* the loop of MemoryEnhancedRunner.run, each pass working through the posts

\* passes the top-level loop starts in one run
MaxPasses == 2

\* the one configured agent whose cycle a pass runs
RunnerAgent == <<"a">>

\* the ids of the posts every pass fetches
RunnerPosts == <<1, 2>>

\* the drafts the response generator returns
Drafts == {ContentGoodPoint, ContentRmRfHome}

RunnerKinds == {"enhanced", "memory"}

\* a runner before its first pass
new_runner(kind) ==
    [kind |-> kind, pc |-> "idle", posts |-> << >>, next |-> 1, reached |-> {},
     raised_at |-> None, comments |-> {}, agent_memory |-> {}, passes |-> 0,
     last_failed |-> FALSE, interrupted |-> FALSE]

\* the position of the loop after "except Exception" has logged the error: the loop
\* breaks instead of sleeping
after_exception_break == "stopped"

\* the position of the loop after "except Exception" has logged the error: it
\* sleeps and goes round again
after_exception == "backoff"

\* the agent is known to the moderator and in cooldown at time t
agent_in_cooldown(scores, agent_id, t) ==
    agent_id \in DOMAIN scores /\ in_cooldown(scores[agent_id], t)

\* the top of "while True": the pass starts and fetches the posts; a fetch that
\* raises ends the cycle of the agent (enhanced) or the pass (memory)
StartPass(fetch_raises) ==
    /\ runner.pc = "idle"
    /\ runner.passes < MaxPasses
    /\ runner' = [runner EXCEPT
                     !.passes = @ + 1,
                     !.reached = {},
                     !.raised_at = None,
                     !.next = 1,
                     !.posts = IF fetch_raises THEN << >> ELSE RunnerPosts,
                     !.last_failed = fetch_raises /\ runner.kind = "memory",
                     !.pc = IF ~fetch_raises THEN "in_pass"
                            ELSE IF runner.kind = "enhanced" THEN "cycle_over"
                            ELSE after_exception]
    /\ UNCHANGED <<commonVars, driftVars, modVars, pairVars, relVars, concVars, memVars>>

\* _process_post of the enhanced runner on the next post: outcome is what
\* should_agent_respond and the generator do ("skip", "raise" or "draft"), draft the
\* response content, api_commented the answer of the API to _has_already_commented
\* when the agent has no memory yet, and post_raises whether _post_comment raises
ProcessPostEnhanced(outcome, draft, api_commented, post_raises) ==
    /\ runner.kind = "enhanced"
    /\ runner.pc = "in_pass"
    /\ runner.next <= Len(runner.posts)
    /\ \E post \in {runner.posts[runner.next]},
          call \in {moderate_call(draft, RunnerAgent, agent_scores, global_chaos_level, now)} :
          IF outcome = "raise"
          THEN /\ runner' = [runner EXCEPT !.reached = @ \cup {post},
                                           !.raised_at = Some(post),
                                           !.pc = "cycle_over"]
               /\ UNCHANGED modVars
          ELSE IF outcome = "skip" \/ post \in runner.agent_memory
          THEN /\ runner' = [runner EXCEPT !.reached = @ \cup {post}, !.next = @ + 1]
               /\ UNCHANGED modVars
          ELSE IF runner.agent_memory = {} /\ api_commented
          THEN /\ runner' = [runner EXCEPT !.reached = @ \cup {post}, !.next = @ + 1,
                                           !.agent_memory = @ \cup {post}]
               /\ UNCHANGED modVars
          ELSE /\ agent_scores' = call.agent_scores
               /\ global_chaos_level' = call.global_chaos_level
               /\ IF call.result.action = "REJECT"
                  THEN runner' = [runner EXCEPT !.reached = @ \cup {post}, !.next = @ + 1]
                  ELSE IF post_raises
                  THEN runner' = [runner EXCEPT !.reached = @ \cup {post},
                                                !.raised_at = Some(post),
                                                !.pc = "cycle_over"]
                  ELSE runner' = [runner EXCEPT
                                     !.reached = @ \cup {post},
                                     !.next = @ + 1,
                                     !.comments = @ \cup
                                         {[post_id |-> post, agent_id |-> RunnerAgent,
                                           content |-> call.result.modified_content[1],
                                           moderation |-> call.result.action,
                                           in_cooldown |-> agent_in_cooldown(agent_scores,
                                                                             RunnerAgent, now)]},
                                     !.agent_memory = @ \cup {post}]
    /\ UNCHANGED <<commonVars, driftVars, pairVars, relVars, concVars, memVars>>

\* the body of the loop of MemoryEnhancedRunner.run on the next post: process_post
\* and the commit of its comments; outcome is what _should_respond_with_memory and
\* the generator do, draft the response content, commit_raises whether the
\* database session raises
ProcessPostMemory(outcome, draft, commit_raises) ==
    /\ runner.kind = "memory"
    /\ runner.pc = "in_pass"
    /\ runner.next <= Len(runner.posts)
    /\ \E post \in {runner.posts[runner.next]} :
          IF outcome = "raise"
          THEN runner' = [runner EXCEPT !.reached = @ \cup {post},
                                        !.raised_at = Some(post),
                                        !.last_failed = TRUE,
                                        !.pc = after_exception]
          ELSE IF outcome = "skip"
          THEN runner' = [runner EXCEPT !.reached = @ \cup {post}, !.next = @ + 1]
          ELSE IF commit_raises
          THEN runner' = [runner EXCEPT !.reached = @ \cup {post},
                                        !.raised_at = Some(post),
                                        !.agent_memory = @ \cup {post},
                                        !.last_failed = TRUE,
                                        !.pc = after_exception]
          ELSE runner' = [runner EXCEPT
                             !.reached = @ \cup {post},
                             !.next = @ + 1,
                             !.comments = @ \cup
                                 {[post_id |-> post, agent_id |-> RunnerAgent,
                                   content |-> draft, moderation |-> "none",
                                   in_cooldown |-> agent_in_cooldown(agent_scores,
                                                                     RunnerAgent, now)]},
                             !.agent_memory = @ \cup {post}]
    /\ UNCHANGED <<commonVars, driftVars, modVars, pairVars, relVars, concVars, memVars>>

\* the end of the pass: the loop over the posts is over (enhanced: the cycle of the
\* agent has returned, and get_community_health raises or not); the loop sleeps
EndPass(health_raises) ==
    /\ \/ runner.pc = "cycle_over"
       \/ runner.pc = "in_pass" /\ runner.next > Len(runner.posts)
    /\ runner' = [runner EXCEPT
                     !.last_failed = runner.kind = "enhanced" /\ health_raises,
                     !.pc = IF runner.kind = "enhanced" /\ health_raises
                            THEN after_exception ELSE "sleeping"]
    /\ UNCHANGED <<commonVars, driftVars, modVars, pairVars, relVars, concVars, memVars>>

\* asyncio.sleep returns, after a pass or after the handler of an exception
Wake ==
    /\ runner.pc \in {"sleeping", "backoff"}
    /\ runner' = [runner EXCEPT !.pc = "idle"]
    /\ UNCHANGED <<commonVars, driftVars, modVars, pairVars, relVars, concVars, memVars>>

\* KeyboardInterrupt, at any point of the loop: "except KeyboardInterrupt: break",
\* or the interrupt leaves the handler that sleeps
Interrupt ==
    /\ runner.pc # "stopped"
    /\ runner' = [runner EXCEPT !.pc = "stopped", !.interrupted = TRUE]
    /\ UNCHANGED <<commonVars, driftVars, modVars, pairVars, relVars, concVars, memVars>>

\* apply_cooldown on the agent of the runner, once
RunnerCooldown ==
    /\ runner.pc # "stopped"
    /\ IF RunnerAgent \in DOMAIN agent_scores
       THEN agent_scores[RunnerAgent].warning_count = 0 ELSE TRUE
    /\ agent_scores' = cooldown_applied(agent_scores, RunnerAgent, 1, now)
    /\ UNCHANGED <<commonVars, global_chaos_level, driftVars, pairVars, relVars, concVars, memVars, runVars>>

RunnerTick ==
    /\ runner.pc # "stopped"
    /\ now < MaxTime
    /\ now' = now + 1
    /\ UNCHANGED <<steps, last, driftVars, modVars, pairVars, relVars, concVars, memVars, runVars>>

InitRunner ==
    /\ now = 0
    /\ steps = 0
    /\ last = NoCall
    /\ state_files = << >>
    /\ agent_scores = << >>
    /\ global_chaos_level = 50 * GlobalScale
    /\ moderator2 = << >>
    /\ rel_files = << >>
    /\ pc = << >>
    /\ loaded = << >>
    /\ memory_files = << >>
    /\ incident_files = << >>
    /\ runner \in {new_runner(k) : k \in RunnerKinds}

StartPassStep == \E fetch_raises \in BOOLEAN : StartPass(fetch_raises)

ProcessPostStep ==
    \/ \E outcome \in {"skip", "raise", "draft"}, draft \in Drafts, api_commented \in BOOLEAN, post_raises \in BOOLEAN : ProcessPostEnhanced(outcome, draft, api_commented, post_raises)
    \/ \E outcome \in {"skip", "raise", "draft"}, draft \in Drafts, commit_raises \in BOOLEAN : ProcessPostMemory(outcome, draft, commit_raises)

EndPassStep == \E health_raises \in BOOLEAN : EndPass(health_raises)

NextRunner ==
    StartPassStep \/ ProcessPostStep \/ EndPassStep \/ Wake \/ Interrupt \/ RunnerCooldown
        \/ RunnerTick

SpecRunner == InitRunner /\ [][NextRunner]_vars

\* the event loop runs the coroutine on: every step of the loop that can be taken
\* is taken, and every sleep returns; interrupts, cooldowns and the clock are not
\* forced
SpecRunnerFair ==
    /\ SpecRunner
    /\ WF_vars(StartPassStep)
    /\ WF_vars(ProcessPostStep)
    /\ WF_vars(EndPassStep)
    /\ WF_vars(Wake)

\* the pass is over: the loop over the posts has been left
PassOver == runner.pc \in {"cycle_over", "sleeping", "backoff"}

\* C13: within one pass, an exception raised while one post is processed is caught
\* for that post only: when the pass is over every post it fetched has been
\* processed
C13_FailureSkipsOnlyThatItem ==
    PassOver => \A k \in 1..Len(runner.posts) : runner.posts[k] \in runner.reached

\* the top-level loop has caught an exception of the n-th pass and has not started
\* the next pass yet
FailedPass(n) == runner.passes = n /\ runner.last_failed /\ runner.pc = "backoff"

\* C14: after any pass of the top-level loop that raises an exception other than the
\* shutdown interrupt, the loop eventually starts another pass; and the loop ends
\* only on shutdown
C14_FailedPassIsFollowedByAnother ==
    /\ \A n \in 1..(MaxPasses - 1) : FailedPass(n) ~> (runner.passes = n + 1)
    /\ [](runner.pc = "stopped" => runner.interrupted)

\* C14 (amended): after a pass that raises an exception other than the shutdown
\* interrupt, the loop eventually starts another pass unless the shutdown interrupt
\* arrives first, while the loop sleeps in its handler; and the loop ends only on
\* shutdown
C14_FailedPassIsFollowedUnlessShutdown ==
    /\ \A n \in 1..(MaxPasses - 1) :
          FailedPass(n) ~> (runner.passes = n + 1 \/ runner.pc = "stopped")
    /\ [](runner.pc = "stopped" => runner.interrupted)

\* a second pass is under way after the first one raised in the memory runner
C14_Witness ==
    /\ runner.kind = "memory"
    /\ runner.passes = 2
    /\ runner.pc = "in_pass"
    /\ runner.comments = {}
    /\ runner.agent_memory = {1}
    /\ ~runner.interrupted

\* C15: a draft is submitted as a comment and recorded in the agent's memory only
\* if moderate_content was called on it and returned neither REJECT nor HOLD; no
\* comment is submitted for an agent in cooldown
C15_OnlyAcceptedDraftsSubmitted ==
    \A c \in runner.comments :
        /\ c.moderation \notin {"none", "REJECT", "HOLD"}
        /\ ~c.in_cooldown

----------------------------------------------------------------------------
\* The counters of a relationship: update_relationship calls with their history

\* update_relationship calls in one run, after the history the files start with
MaxCountCalls == 2

\* -0.3, -0.2, 0.2 and 0.3
CountSentiments == {-3, -2, 2, 3}

\* no joke, a joke the seeded pair has, and a joke it does not have
CountJokes == {None, Some(1), Some(0)}

\* the pairs the calls name, in the order of the arguments
CountPairs == {<<(<<"a">>), (<<"b">>)>>, <<(<<"b">>), (<<"a">>)>>, <<(<<"a">>), (<<"c">>)>>}

CountedUpdate(agent_id, other_agent_id, interaction_sentiment, shared_incident, inside_joke) ==
    /\ Len(last.calls) < MaxCountCalls
    /\ rel_files' = update_relationship(rel_files, agent_id, other_agent_id,
                                        interaction_sentiment, shared_incident,
                                        inside_joke, now)
    /\ last' = [last EXCEPT !.calls = Append(@,
                   [agent_id |-> agent_id,
                    other_agent_id |-> other_agent_id,
                    interaction_sentiment |-> interaction_sentiment,
                    shared_incident |-> shared_incident,
                    inside_joke |-> inside_joke])]
    /\ now' = now + 1
    /\ UNCHANGED <<steps, driftVars, modVars, pairVars, concVars, memVars, runVars>>

\* the files are empty, or hold the pair of "a" and "b" after SeedUpdates calls
InitCount ==
    /\ now = 0
    /\ steps = 0
    /\ state_files = << >>
    /\ agent_scores = << >>
    /\ global_chaos_level = 0
    /\ moderator2 = << >>
    /\ \E seeded \in {0, SeedUpdates} :
          /\ rel_files = after_updates(seeded)
          /\ last = [op |-> "history", seeded |-> seeded, calls |-> << >>]
    /\ pc = << >>
    /\ loaded = << >>
    /\ memory_files = << >>
    /\ incident_files = << >>
    /\ runner = << >>

CountedUpdateStep ==
    \E p \in CountPairs, s \in CountSentiments, i \in RelIncidents, j \in CountJokes :
        CountedUpdate(p[1], p[2], s, i, j)

NextCount == CountedUpdateStep

SpecRelCount == InitCount /\ [][NextCount]_vars

\* the calls of the run on the pair of the two agents, in either order
CallsOn(agent_id, other_agent_id) ==
    {k \in 1..Len(last.calls) :
        {last.calls[k].agent_id, last.calls[k].other_agent_id} = {agent_id, other_agent_id}}

\* the calls the pair had before the run: each with sentiment 0.3, and the first
\* SeedJokes of them with a joke of their own
SeededCalls(agent_id, other_agent_id) ==
    IF {agent_id, other_agent_id} = {<<"a">>, <<"b">>} THEN last.seeded ELSE 0

\* the calls of the run on the pair that passed a joke
JokeCalls(agent_id, other_agent_id) ==
    {k \in CallsOn(agent_id, other_agent_id) : last.calls[k].inside_joke # None}

\* every joke ever passed to the pair, before the run and in it
JokesPassed(agent_id, other_agent_id) ==
    (IF SeededCalls(agent_id, other_agent_id) > 0 THEN 1..SeedJokes ELSE {})
        \cup {last.calls[k].inside_joke[1] : k \in JokeCalls(agent_id, other_agent_id)}

\* C19: after any sequence of n update_relationship calls on a pair,
\* interaction_count is n, positive_interactions is the number of the calls with a
\* sentiment above 0.2, negative_interactions the number with a sentiment below
\* -0.2, positive plus negative is at most interaction_count, and every shared
\* incident passed to a call is in the list of the record; every inside joke ever
\* passed is in the list while the pair has been passed at most MaxInsideJokes
\* different jokes, and the joke passed last is in the list in any case
C19_CountersMatchCalls ==
    last.op = "history" =>
        \A p \in CountPairs :
            CallsOn(p[1], p[2]) # {} =>
                \E r \in {get_relationship(rel_files, p[1], p[2])[1]} :
                    /\ r.interaction_count
                          = SeededCalls(p[1], p[2]) + Cardinality(CallsOn(p[1], p[2]))
                    /\ r.positive_interactions
                          = SeededCalls(p[1], p[2])
                                + Cardinality({k \in CallsOn(p[1], p[2]) :
                                                  last.calls[k].interaction_sentiment > 2})
                    /\ r.negative_interactions
                          = Cardinality({k \in CallsOn(p[1], p[2]) :
                                            last.calls[k].interaction_sentiment < -2})
                    /\ r.positive_interactions + r.negative_interactions
                          <= r.interaction_count
                    /\ \A k \in CallsOn(p[1], p[2]) :
                          last.calls[k].shared_incident # None
                              => InList(last.calls[k].shared_incident[1], r.shared_incidents)
                    /\ Cardinality(JokesPassed(p[1], p[2])) <= MaxInsideJokes
                          => \A j \in JokesPassed(p[1], p[2]) : InList(j, r.inside_jokes)
                    /\ \A k \in JokeCalls(p[1], p[2]) :
                          (\A k2 \in JokeCalls(p[1], p[2]) : k2 <= k)
                              => InList(last.calls[k].inside_joke[1], r.inside_jokes)
                    /\ Len(r.inside_jokes) <= MaxInsideJokes

\* the seeded pair after two more calls, one negative and one at exactly 0.2, the
\* second with a joke that pushes the oldest joke out
C19_Witness ==
    /\ last.op = "history"
    /\ last.seeded = SeedUpdates
    /\ Len(last.calls) = 2
    /\ last.calls[1].agent_id = <<"b">>
    /\ last.calls[1].other_agent_id = <<"a">>
    /\ last.calls[1].interaction_sentiment = -3
    /\ last.calls[2].agent_id = <<"a">>
    /\ last.calls[2].other_agent_id = <<"b">>
    /\ last.calls[2].interaction_sentiment = 2
    /\ last.calls[2].inside_joke = Some(0)
    /\ get_relationship(rel_files, <<"a">>, <<"b">>)[1].interaction_count = SeedUpdates + 2
    /\ get_relationship(rel_files, <<"a">>, <<"b">>)[1].positive_interactions = SeedUpdates
    /\ get_relationship(rel_files, <<"a">>, <<"b">>)[1].negative_interactions = 1
    /\ ~InList(1, get_relationship(rel_files, <<"a">>, <<"b">>)[1].inside_jokes)
    /\ InList(0, get_relationship(rel_files, <<"a">>, <<"b">>)[1].inside_jokes)

-----------------------------------------------------------------------------
(* The memory store: the files of FileMemorySystem as text, written and parsed *)

\* operations in one run
MaxStoreSteps == 3

\* the f-strings of store_incident
IncidentHeading == <<"#", " ", "I", "n", "c", "i", "d", "e", "n", "t", ":", " ">>
IdLabel == <<"*", "*", "I", "D", "*", "*", ":", " ">>
TimestampLabel == <<"*", "*", "T", "i", "m", "e", "s", "t", "a", "m", "p", "*", "*", ":", " ">>
ParticipantsLabel ==
    <<"*", "*", "P", "a", "r", "t", "i", "c", "i", "p", "a", "n", "t", "s", "*", "*", ":", " ">>
DescriptionHeading ==
    <<"#", "#", " ", "D", "e", "s", "c", "r", "i", "p", "t", "i", "o", "n", "\n", "\n">>
OutcomeHeading == <<"#", "#", " ", "O", "u", "t", "c", "o", "m", "e", "\n", "\n">>
LessonsHeading ==
    <<"#", "#", " ", "L", "e", "s", "s", "o", "n", "s", " ", "L", "e", "a", "r", "n", "e", "d",
      "\n", "\n">>
ReferenceCountLabel ==
    <<"*", "*", "R", "e", "f", "e", "r", "e", "n", "c", "e", " ", "C", "o", "u", "n", "t", "*",
      "*", ":", " ">>
\* what ends a section in the patterns of _load_incident_from_file
NextHeading == <<"\n", "\n", "#", "#">>
NextBold == <<"\n", "\n", "*", "*">>
CommaSpace == <<",", " ">>
Newline == <<"\n">>
Dash == <<"-", " ">>
\* the name of the one file that the path incidents/*.md, handed to grep as it is, names
GlobName == <<"*">>
\* the f-strings of store_memory
MemoryHeading == <<"#", "#", " ">>
TypeSeparator == <<" ", "-", " ">>
TagsLabel == <<"*", "*", "T", "a", "g", "s", "*", "*", ":">>
SentimentLabel == <<"*", "*", "S", "e", "n", "t", "i", "m", "e", "n", "t", "*", "*", ":">>
ImportanceLabel == <<"*", "*", "I", "m", "p", "o", "r", "t", "a", "n", "c", "e", "*", "*", ":">>
ReferencesLabel == <<"*", "*", "R", "e", "f", "e", "r", "e", "n", "c", "e", "s", "*", "*", ":">>
Rule == <<"-", "-", "-">>
\* the line grep prints between two groups of lines
GroupSeparator == <<"-", "-">>

\* a file cut off before its first byte was written: open(file, "w") was the last
\* thing that happened to it
Truncated == << >>

RECURSIVE Join(_, _)
\* sep.join(parts)
Join(sep, parts) ==
    IF parts = << >> THEN << >>
    ELSE IF Len(parts) = 1 THEN parts[1]
    ELSE parts[1] \o sep \o Join(sep, Tail(parts))

DigitSeq == <<"0", "1", "2", "3", "4", "5", "6", "7", "8", "9">>

RECURSIVE Digits(_)
Digits(n) ==
    IF n < 10 THEN <<DigitSeq[n + 1]>>
    ELSE Digits(n \div 10) \o <<DigitSeq[(n % 10) + 1]>>

\* str(n)
str_int(n) == IF n < 0 THEN <<"-">> \o Digits(-n) ELSE Digits(n)

RECURSIVE int_digits(_)
\* int(s) of a run of digits
int_digits(s) ==
    IF s = << >> THEN 0
    ELSE 10 * int_digits(SubSeq(s, 1, Len(s) - 1))
            + (CHOOSE d \in 0..9 : DigitSeq[d + 1] = s[Len(s)])

StartsAt(s, i, sub) == i + Len(sub) - 1 <= Len(s) /\ SubSeq(s, i, i + Len(sub) - 1) = sub

Least(S) == CHOOSE i \in S : \A j \in S : i <= j

IsDigit(c) == c \in DigitChars
IsStampChar(c) == IsDigit(c) \/ c \in {"-", "T", ":", "."}

\* the classes of characters of the patterns: ".", "\d", "\w" and "[\d\-T:\.]"
InClass(class, c) ==
    CASE class = "." -> c # "\n"
      [] class = "d" -> IsDigit(c)
      [] class = "w" -> IsWordChar(c)
      [] class = "stamp" -> IsStampChar(c)

\* the end of the longest run of characters of the class that starts at position b
RunEnd(s, b, class) ==
    Least({e \in (b - 1)..Len(s) : e = Len(s) \/ ~InClass(class, s[e + 1])})

\* the group of re.search(prefix(C+), s), C a class of characters: the longest run
\* after the first place where the prefix is followed by a character of the class
group_at(s, starts, prefix, class) ==
    IF starts = {} THEN None
    ELSE Some(SubSeq(s, Least(starts) + Len(prefix),
                     RunEnd(s, Least(starts) + Len(prefix), class)))

search_run(s, prefix, class) ==
    group_at(s, {i \in 1..Len(s) : /\ StartsAt(s, i, prefix)
                                   /\ i + Len(prefix) <= Len(s)
                                   /\ InClass(class, s[i + Len(prefix)])},
             prefix, class)

\* the ends of the shortest group of one character or more between the prefix at
\* position i and the suffix
lazy_ends(s, i, prefix, suffix) ==
    {p \in (i + Len(prefix) + 1)..Len(s) : StartsAt(s, p, suffix)}

lazy_group_at(s, starts, prefix, suffix) ==
    IF starts = {} THEN None
    ELSE Some(SubSeq(s, Least(starts) + Len(prefix),
                     Least(lazy_ends(s, Least(starts), prefix, suffix)) - 1))

\* the group of re.search(prefix(.+?)suffix, s, re.DOTALL)
search_lazy(s, prefix, suffix) ==
    lazy_group_at(s, {i \in 1..Len(s) : /\ StartsAt(s, i, prefix)
                                        /\ lazy_ends(s, i, prefix, suffix) # {}},
                  prefix, suffix)

RECURSIVE Split(_, _)
\* s.split(c) for a separator of one character
Split(s, c) ==
    IF \A i \in 1..Len(s) : s[i] # c THEN <<s>>
    ELSE <<SubSeq(s, 1, Least({i \in 1..Len(s) : s[i] = c}) - 1)>>
            \o Split(SubSeq(s, Least({i \in 1..Len(s) : s[i] = c}) + 1, Len(s)), c)

RECURSIVE StripChars(_, _)
\* s.strip(chars)
StripChars(s, chars) ==
    IF s = << >> THEN s
    ELSE IF s[1] \in chars THEN StripChars(Tail(s), chars)
    ELSE IF s[Len(s)] \in chars THEN StripChars(SubSeq(s, 1, Len(s) - 1), chars)
    ELSE s

RECURSIVE SelectNonBlank(_)
\* the lines that line.strip() leaves something of
SelectNonBlank(lines) ==
    IF lines = << >> THEN << >>
    ELSE IF Strip(lines[1]) = << >> THEN SelectNonBlank(Tail(lines))
    ELSE <<lines[1]>> \o SelectNonBlank(Tail(lines))

RECURSIVE LessonLines(_)
LessonLines(lessons_learned) ==
    IF lessons_learned = << >> THEN << >>
    ELSE Dash \o lessons_learned[1] \o Newline \o LessonLines(Tail(lessons_learned))

\* the text store_incident writes
incident_text(incident) ==
    IncidentHeading \o incident.title \o Newline \o Newline
        \o IdLabel \o incident.incident_id \o Newline
        \o TimestampLabel \o incident.timestamp \o Newline
        \o ParticipantsLabel \o Join(CommaSpace, incident.participants) \o Newline \o Newline
        \o DescriptionHeading \o incident.description \o Newline \o Newline
        \o OutcomeHeading \o incident.outcome \o Newline \o Newline
        \o LessonsHeading \o LessonLines(incident.lessons_learned)
        \o Newline \o ReferenceCountLabel \o str_int(incident.reference_count) \o Newline

\* the entry of index.json
index_entry(incident) ==
    [title |-> incident.title,
     timestamp |-> incident.timestamp,
     participants |-> incident.participants]

store_incident(files, incident) ==
    [md |-> [id \in DOMAIN files.md \cup {incident.incident_id} |->
                IF id = incident.incident_id THEN incident_text(incident) ELSE files.md[id]],
     index |-> [id \in DOMAIN files.index \cup {incident.incident_id} |->
                IF id = incident.incident_id THEN index_entry(incident) ELSE files.index[id]]]

Raised(error) == [raised |-> TRUE, error |-> error]
Returned(value) == [raised |-> FALSE, value |-> value]

OrEmpty(group) == IF group = None THEN << >> ELSE group[1]

\* the IncidentMemory that _load_incident_from_file builds from the groups it found
parsed_incident(stem, title, timestamp, participants, description, outcome, lessons, ref_count) ==
    IF title = None \/ timestamp = None \/ participants = None
    THEN Raised("AttributeError")
    ELSE Returned(
            [incident_id |-> stem,
             timestamp |-> timestamp[1],
             title |-> title[1],
             description |-> OrEmpty(description),
             participants |-> [i \in 1..Len(Split(participants[1], ",")) |->
                                  Strip(Split(participants[1], ",")[i])],
             outcome |-> OrEmpty(outcome),
             lessons_learned |->
                 IF lessons = None THEN << >>
                 ELSE [i \in 1..Len(SelectNonBlank(Split(lessons[1], "\n"))) |->
                          StripChars(SelectNonBlank(Split(lessons[1], "\n"))[i], {"-", " "})],
             reference_count |-> IF ref_count = None THEN 0 ELSE int_digits(ref_count[1])])

load_incident_from_file(content, stem) ==
    parsed_incident(stem,
                    search_run(content, IncidentHeading, "."),
                    search_run(content, TimestampLabel, "."),
                    search_run(content, ParticipantsLabel, "."),
                    search_lazy(content, DescriptionHeading, NextHeading),
                    search_lazy(content, OutcomeHeading, NextHeading),
                    search_lazy(content, LessonsHeading, NextBold),
                    search_run(content, ReferenceCountLabel, "d"))

\* grep -l -i query incidents/GlobName.md: the path is not expanded, so the one
\* file it can name is the incident whose id is GlobName
grep_incidents(files, query) ==
    IF /\ GlobName \in DOMAIN files.md
       /\ files.md[GlobName] # << >>
       /\ Contains(LowerText(files.md[GlobName]), LowerText(query))
    THEN Some(GlobName) ELSE None

searched_incident(files, found) ==
    IF found = None THEN Returned(None)
    ELSE IF load_incident_from_file(files.md[found[1]], found[1]).raised THEN Returned(None)
    ELSE Returned(Some(load_incident_from_file(files.md[found[1]], found[1]).value))

loaded_incident(loaded_file) ==
    IF loaded_file.raised THEN loaded_file ELSE Returned(Some(loaded_file.value))

\* find_incident where the exact id is looked up without the test that the file
\* exists
find_incident_unchecked(files, query) ==
    IF query \in DOMAIN files.md
    THEN loaded_incident(load_incident_from_file(files.md[query], query))
    ELSE Raised("FileNotFoundError")

find_incident(files, query) ==
    IF query \in DOMAIN files.md
    THEN loaded_incident(load_incident_from_file(files.md[query], query))
    ELSE searched_incident(files, grep_incidents(files, query))

\* f"{x:.2f}" of a number given in tenths
format_2f(tenths) ==
    (IF tenths < 0 THEN <<"-">> ELSE << >>)
        \o Digits(Abs(tenths) \div 10) \o <<".">> \o Digits(Abs(tenths) % 10) \o <<"0">>

\* float(s) in hundredths, for the texts that are digits, a point and two digits,
\* with or without a sign; every other text raises ValueError
unsigned_float(s) ==
    IF /\ Len(s) >= 4
       /\ s[Len(s) - 2] = "."
       /\ \A i \in 1..Len(s) : i # Len(s) - 2 => IsDigit(s[i])
    THEN Returned(100 * int_digits(SubSeq(s, 1, Len(s) - 3))
                    + int_digits(SubSeq(s, Len(s) - 1, Len(s))))
    ELSE Raised("ValueError")

negated(number) == IF number.raised THEN number ELSE Returned(-number.value)

float(s) ==
    IF s # << >> /\ s[1] = "-" THEN negated(unsigned_float(Tail(s)))
    ELSE unsigned_float(s)

RECURSIVE ReferenceLines(_)
ReferenceLines(references) ==
    IF references = << >> THEN << >>
    ELSE Dash \o references[1] \o Newline \o ReferenceLines(Tail(references))

\* the text store_memory appends to the file of the day; sentiment and importance
\* in tenths
memory_text(memory) ==
    Newline \o MemoryHeading \o memory.timestamp \o TypeSeparator \o memory.memory_type
        \o Newline \o Newline
        \o TagsLabel \o <<" ">> \o Join(CommaSpace, memory.tags) \o Newline
        \o ParticipantsLabel \o Join(CommaSpace, memory.participants) \o Newline
        \o SentimentLabel \o <<" ">> \o format_2f(memory.sentiment) \o Newline
        \o ImportanceLabel \o <<" ">> \o format_2f(memory.importance) \o Newline \o Newline
        \o memory.content \o Newline
        \o (IF memory.references # << >>
            THEN Newline \o ReferencesLabel \o Newline \o ReferenceLines(memory.references)
            ELSE << >>)
        \o Newline \o Rule \o Newline

store_memory(files, agent_id, memory) ==
    [a \in DOMAIN files \cup {agent_id} |->
        IF a = agent_id
        THEN (IF a \in DOMAIN files THEN files[a] ELSE << >>) \o memory_text(memory)
        ELSE files[a]]

\* the lines of a text that ends every line with a newline
Lines(text) ==
    IF text = << >> THEN << >>
    ELSE IF text[Len(text)] = "\n" THEN Split(SubSeq(text, 1, Len(text) - 1), "\n")
    ELSE Split(text, "\n")

\* grep -i query: the numbers of the lines that hold the query
matching_lines(lines, query) ==
    {i \in 1..Len(lines) : Contains(LowerText(lines[i]), LowerText(query))}

\* -B2 -A5: the lines printed around the matching ones
context_lines(lines, matching) ==
    {i \in 1..Len(lines) : \E m \in matching : m - 2 <= i /\ i <= m + 5}

RECURSIVE grep_output(_, _, _)
\* the printed lines from line i on, with a separator between two groups
grep_output(lines, printed, i) ==
    IF i > Len(lines) THEN << >>
    ELSE IF i \notin printed THEN grep_output(lines, printed, i + 1)
    ELSE (IF i - 1 \notin printed /\ \E j \in printed : j < i
          THEN <<GroupSeparator>> ELSE << >>)
            \o <<lines[i]>> \o grep_output(lines, printed, i + 1)

\* re.match of the heading pattern at a line, once the run of the timestamp and
\* the run of the type are known: the two groups, or None
heading_groups(line, stamp_end, type_end) ==
    IF /\ StartsAt(line, 1, MemoryHeading)
       /\ stamp_end >= Len(MemoryHeading) + 1
       /\ StartsAt(line, stamp_end + 1, TypeSeparator)
       /\ type_end >= stamp_end + Len(TypeSeparator) + 1
    THEN Some([timestamp |-> SubSeq(line, Len(MemoryHeading) + 1, stamp_end),
               memory_type |-> SubSeq(line, stamp_end + Len(TypeSeparator) + 1, type_end)])
    ELSE None

heading_type_end(line, stamp_end) ==
    heading_groups(line, stamp_end,
                   RunEnd(line, stamp_end + Len(TypeSeparator) + 1, "w"))

heading_match(line) ==
    heading_type_end(line, RunEnd(line, Len(MemoryHeading) + 1, "stamp"))

\* the dict that _parse_grep_output fills, as a record of optional values
EmptyDict == [timestamp |-> None, memory_type |-> None, tags |-> None,
              sentiment |-> None, importance |-> None]

\* _create_memory_from_dict; sentiment and importance in hundredths
create_memory_from_dict(data) ==
    [timestamp |-> IF data.timestamp = None THEN << >> ELSE data.timestamp[1],
     memory_type |-> IF data.memory_type = None
                     THEN <<"g", "e", "n", "e", "r", "a", "l">> ELSE data.memory_type[1],
     content |-> << >>,
     tags |-> IF data.tags = None THEN << >> ELSE data.tags[1],
     participants |-> << >>,
     sentiment |-> IF data.sentiment = None THEN 0 ELSE data.sentiment[1],
     importance |-> IF data.importance = None THEN 50 ELSE data.importance[1],
     references |-> << >>]

\* the text of a line after its label: line.replace(label, "").strip()
after_label(line, label) == Strip(Sub(Word(label), << >>, line, FALSE))

stripped_parts(parts) == [i \in 1..Len(parts) |-> Strip(parts[i])]

\* the state of the loop of _parse_grep_output
parse_start == [raised |-> FALSE, memories |-> << >>, current_memory |-> EmptyDict]

with_heading(state, groups) ==
    IF groups = None THEN state
    ELSE [state EXCEPT !.current_memory.timestamp = Some(groups[1].timestamp),
                       !.current_memory.memory_type = Some(groups[1].memory_type)]

flushed(state) ==
    IF state.current_memory # EmptyDict
    THEN [state EXCEPT !.memories = Append(@, create_memory_from_dict(state.current_memory)),
                       !.current_memory = EmptyDict]
    ELSE state

with_number(state, field, number) ==
    IF number.raised THEN [state EXCEPT !.raised = TRUE]
    ELSE [state EXCEPT !.current_memory[field] = Some(number.value)]

\* one turn of the loop
parse_line(state, line) ==
    IF state.raised THEN state
    ELSE IF StartsAt(line, 1, <<"#", "#">>) THEN with_heading(flushed(state), heading_match(line))
    ELSE IF StartsAt(line, 1, TagsLabel)
         THEN [state EXCEPT !.current_memory.tags =
                  Some(stripped_parts(Split(after_label(line, TagsLabel), ",")))]
    ELSE IF StartsAt(line, 1, SentimentLabel)
         THEN with_number(state, "sentiment", float(after_label(line, SentimentLabel)))
    ELSE IF StartsAt(line, 1, ImportanceLabel)
         THEN with_number(state, "importance", float(after_label(line, ImportanceLabel)))
    ELSE state

RECURSIVE parse_lines(_, _, _)
parse_lines(state, lines, i) ==
    IF i > Len(lines) THEN state
    ELSE parse_lines(parse_line(state, lines[i]), lines, i + 1)

SelectType(memories, memory_type) ==
    IF memory_type = None THEN memories
    ELSE SelectSeq(memories, LAMBDA m : m.memory_type = memory_type[1])

\* _parse_grep_output: the memories, or the ValueError of float
parse_grep_output(output_lines, memory_type) ==
    IF parse_lines(parse_start, output_lines, 1).raised THEN Raised("ValueError")
    ELSE Returned(SelectType(flushed(parse_lines(parse_start, output_lines, 1)).memories,
                             memory_type))

\* what search_memories returns of the parse: an exception in it is logged
parsed_or_empty(parsed) == IF parsed.raised THEN Returned(<< >>) ELSE parsed

\* search_memories with the default days_back: find hands the files that hold the
\* query, in the case it is written in, to grep -i -B2 -A5
search_memories(files, agent_id, query, memory_type) ==
    IF agent_id \notin DOMAIN files THEN Returned(<< >>)
    ELSE IF files[agent_id] = << >> \/ ~Contains(files[agent_id], query) THEN Returned(<< >>)
    ELSE parsed_or_empty(
            parse_grep_output(
                grep_output(Lines(files[agent_id]),
                            context_lines(Lines(files[agent_id]),
                                          matching_lines(Lines(files[agent_id]), query)),
                            1),
                memory_type))

\* the texts of the calls
Id1 == <<"i", "1">>
Id2 == <<"i", "2">>
TitleOutage == <<"T", "h", "e", " ", "o", "u", "t", "a", "g", "e">>
TitleParty == <<"T", "h", "e", " ", "p", "a", "r", "t", "y">>
ItBroke == <<"i", "t", " ", "b", "r", "o", "k", "e">>
ItWasFun == <<"i", "t", " ", "w", "a", "s", " ", "f", "u", "n">>
Fixed == <<"f", "i", "x", "e", "d">>
Cake == <<"c", "a", "k", "e">>
TestFirst == <<"t", "e", "s", "t", " ", "f", "i", "r", "s", "t">>
Nonexistent == <<"n", "o", "n", "e", "x", "i", "s", "t", "e", "n", "t">>
Outage == <<"o", "u", "t", "a", "g", "e">>
Interaction == <<"i", "n", "t", "e", "r", "a", "c", "t", "i", "o", "n">>
Bug == <<"b", "u", "g">>
SawABug == <<"s", "a", "w", " ", "a", " ", "b", "u", "g">>
Zzz == <<"z", "z", "z">>

Timestamp1 ==
    <<"2", "0", "2", "5", "-", "0", "1", "-", "0", "1", "T", "0", "0", ":", "0", "0", ":", "0",
      "0">>

StoreAgent == <<"a">>
Ghost == <<"g", "h", "o", "s", "t">>

\* an incident, the same id with everything else different and a lower
\* reference_count, one without a description, and one without participants
StoredIncidents ==
    {[incident_id |-> Id1, timestamp |-> Timestamp1, title |-> TitleOutage,
      description |-> ItBroke, participants |-> <<(<<"a">>), (<<"b">>)>>, outcome |-> Fixed,
      lessons_learned |-> <<TestFirst>>, reference_count |-> 3],
     [incident_id |-> Id1, timestamp |-> Timestamp1, title |-> TitleParty,
      description |-> ItWasFun, participants |-> <<(<<"a">>)>>, outcome |-> Cake,
      lessons_learned |-> << >>, reference_count |-> 1],
     [incident_id |-> Id2, timestamp |-> Timestamp1, title |-> TitleParty,
      description |-> << >>, participants |-> <<(<<"b">>)>>, outcome |-> Cake,
      lessons_learned |-> <<TestFirst>>, reference_count |-> 1],
     [incident_id |-> Id2, timestamp |-> Timestamp1, title |-> TitleOutage,
      description |-> ItBroke, participants |-> << >>, outcome |-> Fixed,
      lessons_learned |-> << >>, reference_count |-> 1]}

\* the ids, a word of a stored incident that is no id, and a word of none
IncidentQueries == {Id1, Id2, Outage, Nonexistent}

\* Memory objects with a sentiment of 0.3 and of 3.5
StoredMemories ==
    {[timestamp |-> Timestamp1, memory_type |-> Interaction, content |-> SawABug,
      tags |-> <<Bug>>, participants |-> <<(<<"b">>)>>, sentiment |-> s, importance |-> 5,
      references |-> << >>] : s \in {3, 35}}

MemoryQueries == {Bug, Zzz}

\* 0.3, 1.5 and -7.0
StoreSentiments == {3, 15, -70}

\* a JSON file that json.load cannot parse
Unparsable == [unparsable |-> TRUE]
IsUnparsable(file) == "unparsable" \in DOMAIN file

SentimentInRange(sentiment) == -10 <= sentiment /\ sentiment <= 10

\* what the calls of the run leave in last besides the call itself: the incident
\* each id was created with, and the call before
Created(incident) ==
    IF incident.incident_id \in DOMAIN last.created THEN last.created
    ELSE (incident.incident_id :> incident) @@ last.created

Previous == [f \in DOMAIN last \ {"created", "previous", "prior"} |-> last[f]]

Call(call, created) == call @@ [created |-> created, previous |-> Previous]

StoreIncident(incident) ==
    /\ steps < MaxStoreSteps
    /\ incident_files' = store_incident(incident_files, incident)
    /\ last' = Call([op |-> "store_incident", incident |-> incident, raised |-> FALSE],
                    Created(incident))
    /\ steps' = steps + 1
    /\ UNCHANGED <<now, memory_files, driftVars, modVars, pairVars, relVars, concVars, runVars>>

FindIncident(query) ==
    /\ steps < MaxStoreSteps
    /\ \E found \in {find_incident(incident_files, query)} :
          last' = Call([op |-> "find_incident", query |-> query, raised |-> found.raised,
                   result |-> IF found.raised THEN None ELSE found.value,
                   unreadable |-> query \in DOMAIN incident_files.md
                                     /\ incident_files.md[query] = Truncated,
                   matching |-> {id \in DOMAIN incident_files.md :
                                    \/ id = query
                                    \/ Contains(LowerText(incident_files.md[id]),
                                                LowerText(query))}],
                    last.created)
    /\ steps' = steps + 1
    /\ UNCHANGED <<now, memVars, driftVars, modVars, pairVars, relVars, concVars, runVars>>

StoreMemory(agent_id, memory) ==
    /\ steps < MaxStoreSteps
    /\ memory_files' = store_memory(memory_files, agent_id, memory)
    /\ last' = Call([op |-> "store_memory", agent_id |-> agent_id, sentiment |-> memory.sentiment,
                raised |-> FALSE, prior |-> memory_files],
                    last.created)
    /\ steps' = steps + 1
    /\ UNCHANGED <<now, incident_files, driftVars, modVars, pairVars, relVars, concVars, runVars>>

\* the file ends in the middle of a line: after the label of a sentiment
CutMemory(text) ==
    SubSeq(text, 1, Least({i \in 1..Len(text) : StartsAt(text, i, SentimentLabel)})
                        + Len(SentimentLabel) - 1)

IsCut(text) == text # << >> /\ text[Len(text)] # "\n"

SearchMemories(agent_id, query, memory_type) ==
    /\ steps < MaxStoreSteps
    /\ \E found \in {search_memories(memory_files, agent_id, query, memory_type)} :
          last' = Call([op |-> "search_memories", agent_id |-> agent_id, query |-> query,
                   raised |-> found.raised,
                   result |-> IF found.raised THEN << >> ELSE found.value,
                   unreadable |-> agent_id \in DOMAIN memory_files
                                     /\ IsCut(memory_files[agent_id]),
                   stored |-> agent_id \in DOMAIN memory_files],
                    last.created)
    /\ steps' = steps + 1
    /\ UNCHANGED <<now, memVars, driftVars, modVars, pairVars, relVars, concVars, runVars>>

\* json.load of the relationship file of the pair, where there is one
relationship_loads(files, agent_id, other_agent_id) ==
    \/ rel_id(agent_id, other_agent_id) \notin DOMAIN files
    \/ ~IsUnparsable(files[rel_id(agent_id, other_agent_id)])

StoreUpdateRelationship(agent_id, other_agent_id, interaction_sentiment) ==
    /\ steps < MaxStoreSteps
    /\ rel_files' = IF relationship_loads(rel_files, agent_id, other_agent_id)
                    THEN update_relationship(rel_files, agent_id, other_agent_id,
                                             interaction_sentiment, None, None, now)
                    ELSE rel_files
    /\ last' = Call([op |-> "update_relationship", sentiment |-> interaction_sentiment,
                raised |-> ~relationship_loads(rel_files, agent_id, other_agent_id),
                prior |-> rel_files],
                    last.created)
    /\ steps' = steps + 1
    /\ UNCHANGED <<now, memVars, driftVars, modVars, pairVars, concVars, runVars>>

StoreGetRelationship(agent_id, other_agent_id) ==
    /\ steps < MaxStoreSteps
    /\ last' = Call([op |-> "get_relationship",
                raised |-> ~relationship_loads(rel_files, agent_id, other_agent_id),
                result |-> IF relationship_loads(rel_files, agent_id, other_agent_id)
                           THEN get_relationship(rel_files, agent_id, other_agent_id)
                           ELSE None,
                unreadable |-> ~relationship_loads(rel_files, agent_id, other_agent_id)],
                    last.created)
    /\ steps' = steps + 1
    /\ UNCHANGED <<now, memVars, driftVars, modVars, pairVars, relVars, concVars, runVars>>

\* json.load of the state file of the agent, where there is one
state_loads(files, agent_id) ==
    agent_id \notin DOMAIN files \/ ~IsUnparsable(files[agent_id])

StoreGetCurrentState(agent_id) ==
    /\ steps < MaxStoreSteps
    /\ last' = Call([op |-> "get_current_state", agent_id |-> agent_id,
                raised |-> ~state_loads(state_files, agent_id),
                result |-> IF state_loads(state_files, agent_id)
                           THEN Some(get_current_state(state_files, agent_id, now))
                           ELSE None,
                unreadable |-> ~state_loads(state_files, agent_id)],
                    last.created)
    /\ steps' = steps + 1
    /\ UNCHANGED <<now, memVars, driftVars, modVars, pairVars, relVars, concVars, runVars>>

\* a file is left unreadable: a writer died between open(file, "w") and the end
\* of its write
Damage ==
    /\ steps < MaxStoreSteps
    /\ \/ \E id \in DOMAIN incident_files.md :
             /\ incident_files.md[id] # Truncated
             /\ incident_files' = [incident_files EXCEPT !.md[id] = Truncated]
             /\ UNCHANGED <<memory_files, rel_files, state_files>>
       \/ \E a \in DOMAIN memory_files :
             /\ ~IsCut(memory_files[a])
             /\ memory_files' = [memory_files EXCEPT ![a] = CutMemory(@)]
             /\ UNCHANGED <<incident_files, rel_files, state_files>>
       \/ \E id \in DOMAIN rel_files :
             /\ ~IsUnparsable(rel_files[id])
             /\ rel_files' = [rel_files EXCEPT ![id] = Unparsable]
             /\ UNCHANGED <<memory_files, incident_files, state_files>>
       \/ \E a \in DOMAIN state_files :
             /\ ~IsUnparsable(state_files[a])
             /\ state_files' = [state_files EXCEPT ![a] = Unparsable]
             /\ UNCHANGED <<memory_files, incident_files, rel_files>>
    /\ last' = Call([op |-> "damage", raised |-> FALSE],
                    last.created)
    /\ steps' = steps + 1
    /\ UNCHANGED <<now, modVars, pairVars, concVars, runVars>>

\* the incident and the memory that a store in use holds already
SeedIncident == CHOOSE incident \in StoredIncidents : incident.reference_count = 3
SeedMemory == CHOOSE memory \in StoredMemories : memory.sentiment = 3

\* the directories are empty but for the state of one agent, or a store_incident
\* and a store_memory have been through already
InitStore ==
    /\ now = 0
    /\ steps = 0
    /\ state_files = [a \in {StoreAgent} |-> create_default_state(a, 0)]
    /\ agent_scores = << >>
    /\ global_chaos_level = 0
    /\ moderator2 = << >>
    /\ rel_files = << >>
    /\ pc = << >>
    /\ loaded = << >>
    /\ \/ /\ memory_files = << >>
          /\ incident_files = [md |-> << >>, index |-> << >>]
          /\ last = [op |-> "none", raised |-> FALSE, created |-> << >>,
                     previous |-> [op |-> "none", raised |-> FALSE]]
       \/ /\ memory_files = store_memory(<< >>, StoreAgent, SeedMemory)
          /\ incident_files = store_incident([md |-> << >>, index |-> << >>], SeedIncident)
          /\ last = [op |-> "none", raised |-> FALSE,
                     created |-> (SeedIncident.incident_id :> SeedIncident),
                     previous |-> [op |-> "none", raised |-> FALSE]]
    /\ runner = << >>

StoreIncidentStep == \E incident \in StoredIncidents : StoreIncident(incident)
FindIncidentStep == \E query \in IncidentQueries : FindIncident(query)
StoreMemoryStep == \E memory \in StoredMemories : StoreMemory(StoreAgent, memory)
SearchMemoriesStep ==
    \E agent_id \in {StoreAgent, Ghost}, query \in MemoryQueries,
       memory_type \in {None, Some(Interaction)} :
        SearchMemories(agent_id, query, memory_type)
UpdateRelationshipStep ==
    \E s \in StoreSentiments : StoreUpdateRelationship(StoreAgent, <<"b">>, s)
GetRelationshipStep == StoreGetRelationship(<<"b">>, StoreAgent)
GetCurrentStateStep == \E a \in {StoreAgent, <<"b">>} : StoreGetCurrentState(a)

NextStore ==
    \/ StoreIncidentStep
    \/ FindIncidentStep
    \/ StoreMemoryStep
    \/ SearchMemoriesStep
    \/ UpdateRelationshipStep
    \/ GetRelationshipStep
    \/ GetCurrentStateStep
    \/ Damage

SpecStore == InitStore /\ [][NextStore]_vars

\* C16: update_relationship and store_memory called with a sentiment outside
\* [-1, 1] raise, and leave the relationship files and the memory files as they
\* were before the call
C16_OutOfRangeSentimentRejected ==
    (last.op \in {"update_relationship", "store_memory"} /\ ~SentimentInRange(last.sentiment)) =>
        /\ last.raised
        /\ last.op = "update_relationship" => rel_files = last.prior
        /\ last.op = "store_memory" => memory_files = last.prior

\* C17: when the file behind a record cannot be parsed, get_relationship,
\* search_memories, find_incident and get_current_state do not raise, and return
\* None, the empty list or the default state
C17_UnreadableRecordGivesEmptyResult ==
    (/\ last.op \in {"get_relationship", "search_memories", "find_incident", "get_current_state"}
     /\ last.unreadable) =>
        /\ ~last.raised
        /\ last.op \in {"get_relationship", "find_incident"} => last.result = None
        /\ last.op = "search_memories" => last.result = << >>
        /\ last.op = "get_current_state"
              => last.result = Some(create_default_state(last.agent_id, now))

\* C18: once store_incident has created an incident with an id, every later
\* find_incident of the id returns the title, description, participants, outcome
\* and lessons it was created with, whatever ran in between, and a
\* reference_count that is not below the one it was created with
C18_IncidentImmutableAfterCreation ==
    (last.op = "find_incident" /\ last.query \in DOMAIN last.created) =>
        /\ ~last.raised
        /\ last.result # None
        /\ \A f \in {"title", "description", "participants", "outcome", "lessons_learned"} :
              last.result[1][f] = last.created[last.query][f]
        /\ last.result[1].reference_count >= last.created[last.query].reference_count

\* C20: find_incident with a query that is the id of no stored incident and in
\* the text of none returns None and does not raise, and search_memories for an
\* agent without stored memories returns the empty list and does not raise
C20_NoMatchGivesNoResult ==
    /\ (last.op = "find_incident" /\ last.matching = {})
          => (~last.raised /\ last.result = None)
    /\ (last.op = "search_memories" /\ ~last.stored)
          => (~last.raised /\ last.result = << >>)

\* in a store that holds an incident and the memories of another agent,
\* find_incident("nonexistent") and then a search of the memories of an agent
\* that has none, for a word the other agent's memories hold
C20_Witness ==
    /\ DOMAIN incident_files.md # {}
    /\ StoreAgent \in DOMAIN memory_files
    /\ Contains(memory_files[StoreAgent], Bug)
    /\ last.previous.op = "find_incident"
    /\ last.previous.query = Nonexistent
    /\ last.previous.matching = {}
    /\ last.previous.result = None
    /\ last.op = "search_memories"
    /\ last.agent_id = Ghost
    /\ last.query = Bug
    /\ ~last.stored
    /\ last.result = << >>

----------------------------------------------------------------------------
\* The scores the moderator keeps

\* the AgentBehaviorScore the call recorded in l found for its agent: the one the
\* moderator had, or the one it made for an agent it did not know
ScoreBefore(l) ==
    IF l.agent_id \in DOMAIN l.prior_scores THEN l.prior_scores[l.agent_id]
    ELSE new_behavior_score(l.agent_id)

\* C21: after any sequence of moderate_content and apply_cooldown calls the
\* rolling chaos_score and quality_score of every known agent are in [0, 100], and
\* a moderate_content call that is not hard-blocked sets the two of its agent to
\* old * 0.7 + sample * 0.3, old being 50 for an agent seen for the first time
C21_RollingScoresSmoothedInRange ==
    /\ \A a \in DOMAIN agent_scores :
          /\ 0 <= agent_scores[a].chaos_score
          /\ agent_scores[a].chaos_score <= 100 * ScoreScale
          /\ 0 <= agent_scores[a].quality_score
          /\ agent_scores[a].quality_score <= 100 * ScoreScale
    /\ (last.op = "moderate_content" /\ last.result.rating # "BLOCKED") =>
          /\ 10 * agent_scores[last.agent_id].chaos_score
                = 7 * (IF last.agent_id \in DOMAIN last.prior_scores
                       THEN last.prior_scores[last.agent_id].chaos_score
                       ELSE 50 * ScoreScale)
                  + 3 * analysis[last.content].chaos_score
          /\ 10 * agent_scores[last.agent_id].quality_score
                = 7 * (IF last.agent_id \in DOMAIN last.prior_scores
                       THEN last.prior_scores[last.agent_id].quality_score
                       ELSE 50 * ScoreScale)
                  + 3 * analysis[last.content].quality_score

\* a known agent whose scores have left 50 posts again, and both scores move
C21_Witness ==
    /\ last.op = "moderate_content"
    /\ last.result.rating # "BLOCKED"
    /\ last.agent_id \in DOMAIN last.prior_scores
    /\ last.prior_scores[last.agent_id].chaos_score # 50 * ScoreScale
    /\ last.prior_scores[last.agent_id].quality_score # 50 * ScoreScale
    /\ agent_scores[last.agent_id].chaos_score # last.prior_scores[last.agent_id].chaos_score
    /\ agent_scores[last.agent_id].quality_score
          # last.prior_scores[last.agent_id].quality_score
    /\ last.prior_scores[last.agent_id].warning_count > 0

\* C25: in every state that moderate_content and apply_cooldown calls reach with
\* an agent known, global_chaos_level, which get_community_health reports, is the
\* mean of the chaos_score of all known agents, which it counts as active
C25_GlobalChaosIsMean ==
    DOMAIN agent_scores # {} => global_chaos_level = mean_chaos(agent_scores)

\* C26: a moderate_content call rejected for a hard-blocked pattern leaves the
\* agent_scores, with the set of known agents, and global_chaos_level as they were
C26_BlockedChangesNothing ==
    (last.op = "moderate_content" /\ last.result.rating = "BLOCKED") =>
        /\ agent_scores = last.prior_scores
        /\ DOMAIN agent_scores = DOMAIN last.prior_scores
        /\ global_chaos_level = last.prior_global

\* a hard-blocked content from an agent the moderator does not know, on a
\* moderator that knows another agent
C26_Witness ==
    /\ last.op = "moderate_content"
    /\ last.result.action = "REJECT"
    /\ last.result.rating = "BLOCKED"
    /\ last.agent_id \notin DOMAIN last.prior_scores
    /\ DOMAIN last.prior_scores # {}
    /\ last.agent_id \notin DOMAIN agent_scores

\* C29: after an apply_cooldown call the cooldown_until of the agent is no earlier
\* than a cooldown that was in force before the call, its warning_count is 1
\* higher, and its chaos_score and quality_score are as before
C29_CooldownNeverShortened ==
    last.op = "apply_cooldown" =>
        /\ in_cooldown(ScoreBefore(last), last.at)
              => agent_scores[last.agent_id].cooldown_until[1]
                    >= ScoreBefore(last).cooldown_until[1]
        /\ agent_scores[last.agent_id].warning_count = ScoreBefore(last).warning_count + 1
        /\ agent_scores[last.agent_id].chaos_score = ScoreBefore(last).chaos_score
        /\ agent_scores[last.agent_id].quality_score = ScoreBefore(last).quality_score

----------------------------------------------------------------------------
\* Major shifts: interactions strong enough to move a trait by more than 0.2

\* intensity 5.0 and 20.0
ShiftIntensities == {50, 200}

ShiftInteraction ==
    \E a \in DriftAgents, ty \in InteractionTypes, s \in Sentiments, i \in ShiftIntensities :
        apply_interaction(a, ty, None, s, i)

NextShift == ShiftInteraction \/ ApplyIncident \/ Tick

SpecShift == InitDrift /\ [][NextShift]_vars

\* a major trait moved by more than 0.2 between the state the call recorded in l
\* read and the state it saved
MajorTraitMoved(l) ==
    \E f \in {"chaos_tolerance", "aggression", "trust_level"} :
        10 * Abs(l.result[f] - l.prior[f]) > 2 * TraitScale

\* the sum of the absolute changes of the traits that the velocity is the mean of
TotalChange(l) ==
    SumOver([f \in VelocityTraits |-> Abs(l.result[f] - l.prior[f])], VelocityTraits)

\* the mean absolute change is above 0.1
VelocityAbove(l) == 10 * TotalChange(l) > Cardinality(VelocityTraits) * TraitScale

\* last_major_shift of the saved state is the time of the call if the shift was
\* major, and the value the call read if not
ShiftStampedIfMajor(l) ==
    IF MajorTraitMoved(l) \/ VelocityAbove(l)
    THEN l.result.last_major_shift = Some(l.result.timestamp)
    ELSE l.result.last_major_shift = l.prior.last_major_shift

\* C22: apply_interaction and apply_incident set last_major_shift to the current
\* time if and only if a major trait (chaos_tolerance, aggression, trust_level)
\* changed by more than 0.2 or the drift velocity between the prior and the new
\* state is above 0.1; otherwise last_major_shift keeps its value
C22_MajorShiftStampedIffMajor ==
    last.op \in {"apply_interaction", "apply_incident"} =>
        /\ ShiftStampedIfMajor(last)
        /\ state_files[last.agent_id].last_major_shift = last.result.last_major_shift

\* C22 (amended): apply_interaction sets last_major_shift to the current time if
\* and only if a major trait changed by more than 0.2 or the drift velocity
\* between the prior and the new state is above 0.1, and keeps its value
\* otherwise; apply_incident sets it to the current time in every case
C22_InteractionStampedIffMajorIncidentAlways ==
    /\ last.op = "apply_interaction" => ShiftStampedIfMajor(last)
    /\ last.op = "apply_incident"
          => last.result.last_major_shift = Some(last.result.timestamp)
    /\ last.op \in {"apply_interaction", "apply_incident"}
          => state_files[last.agent_id].last_major_shift = last.result.last_major_shift

\* an interaction that moved a major trait by more than 0.2 with a velocity of
\* 0.1 or less, on a state whose last major shift was at an earlier time
C22_Witness ==
    /\ last.op = "apply_interaction"
    /\ MajorTraitMoved(last)
    /\ ~VelocityAbove(last)
    /\ last.prior.last_major_shift # None
    /\ last.prior.last_major_shift # last.result.last_major_shift
    /\ last.result.last_major_shift = Some(now)

\* an interaction that moved no major trait by more than 0.2 and whose velocity is
\* above 0.1
C22_VelocityWitness ==
    /\ last.op = "apply_interaction"
    /\ ~MajorTraitMoved(last)
    /\ VelocityAbove(last)
    /\ last.result.last_major_shift = Some(now)

\* an interaction that was not a major shift, on a state whose last major shift
\* was at an earlier time
C22_MinorWitness ==
    /\ last.op = "apply_interaction"
    /\ ~MajorTraitMoved(last)
    /\ ~VelocityAbove(last)
    /\ last.result # last.prior
    /\ last.prior.last_major_shift # None
    /\ last.prior.last_major_shift # Some(now)
    /\ last.result.last_major_shift = last.prior.last_major_shift

\* C23: the drift_velocity of the state that apply_interaction, apply_incident and
\* apply_time_drift return and save is the mean absolute change of the traits
\* between the state before the call and the state after it, and is not negative
C23_VelocityIsMeanChange ==
    last.op \in {"apply_interaction", "apply_incident", "apply_time_drift"} =>
        /\ last.result.drift_velocity * Cardinality(VelocityTraits)
              = TotalChange(last) * (VelocityScale \div TraitScale)
        /\ state_files[last.agent_id].drift_velocity = last.result.drift_velocity
        /\ last.result.drift_velocity >= 0

\* C24: after apply_time_drift with hours_passed >= 0 every trait but
\* humor_tendency and analytical_depth lies between its value before the call and
\* its baseline value, the two included
C24_TimeDriftStaysBetween ==
    (last.op = "apply_time_drift" /\ last.hours_passed >= 0) =>
        \A f \in Traits \ RandomDriftTraits :
            \/ /\ last.prior[f] <= last.result[f]
               /\ last.result[f] <= get_baseline_personality(last.agent_id, 0)[f]
            \/ /\ get_baseline_personality(last.agent_id, 0)[f] <= last.result[f]
               /\ last.result[f] <= last.prior[f]

----------------------------------------------------------------------------
\* The comments an agent submits: run_agent_cycle and _process_post of
\* EnhancedAgentRunner with agent_memory as the list it is, cut to memory_depth
\* entries, and the status the board answers to a submitted comment

\* personality.memory.memory_depth of the agent (50 when the configuration leaves it out)
memory_depth == 1

\* the ids of the posts every cycle fetches: one more than the memory holds
CommentPosts == [k \in 1..(memory_depth + 1) |-> k]

\* the status codes the board answers to POST /api/agent/comment
CommentStatuses == {201, 500}

\* the runner before its first cycle: created counts the comments of the agent the
\* board has created on each post in this run, earlier whether the board holds a
\* comment of the agent from before the run
new_commenter(earlier) ==
    [kind |-> "commenter", pc |-> "idle", next |-> 1, cycles |-> 0,
     agent_memory |-> << >>,
     created |-> [p \in 1..Len(CommentPosts) |-> 0],
     earlier |-> earlier]

\* the memory entry of a comment on a post
commented_entry(post_id) == [post_id |-> post_id, action |-> "commented"]

\* _has_already_commented: the answer, and agent_memory after the call;
\* api_commented is whether GET /api/posts/<id> answers 200 with a comment of the agent
has_already_commented(agent_memory, post_id, api_commented) ==
    IF \E k \in DOMAIN agent_memory : agent_memory[k] = commented_entry(post_id)
    THEN [result |-> TRUE, agent_memory |-> agent_memory]
    ELSE IF agent_memory = << >> /\ api_commented
    THEN [result |-> TRUE, agent_memory |-> <<commented_entry(post_id)>>]
    ELSE [result |-> FALSE, agent_memory |-> agent_memory]

\* the slice list[-n:]
last_slice(list, n) == IF n = 0 THEN list ELSE LastN(list, n)

\* _update_agent_memory: the entry is appended and the list cut to memory_depth
update_agent_memory(agent_memory, post_id) ==
    last_slice(Append(agent_memory, commented_entry(post_id)), memory_depth)

\* run_agent_cycle up to the loop over the posts: the posts are fetched
StartCycle ==
    /\ runner.pc = "idle"
    /\ runner.cycles < MaxPasses
    /\ runner' = [runner EXCEPT !.cycles = @ + 1, !.next = 1, !.pc = "in_cycle"]
    /\ last' = [op |-> "run_agent_cycle"]
    /\ UNCHANGED <<now, steps, driftVars, modVars, pairVars, relVars, concVars, memVars>>

\* _process_post on the next post of the cycle: responds is the answer of
\* should_agent_respond, api_ok whether GET /api/posts/<id> answers 200, draft the
\* generated content, status what the board answers to the submitted comment,
\* post_raises whether the request raises instead (run_agent_cycle catches it and
\* the cycle is over)
process_post(responds, api_ok, draft, status, post_raises) ==
    /\ runner.pc = "in_cycle"
    /\ runner.next <= Len(CommentPosts)
    /\ \E post \in {CommentPosts[runner.next]} :
       \E seen \in {has_already_commented(runner.agent_memory, post, api_ok /\ (runner.created[post] > 0 \/ post \in runner.earlier))} :
       \E call \in {moderate_call(draft, RunnerAgent, agent_scores, global_chaos_level, now)} :
          IF ~responds
          THEN /\ runner' = [runner EXCEPT !.next = @ + 1]
               /\ last' = [op |-> "process_post", post_id |-> post, submitted |-> FALSE,
                           prior_memory |-> runner.agent_memory]
               /\ UNCHANGED modVars
          ELSE IF seen.result
          THEN /\ runner' = [runner EXCEPT !.next = @ + 1, !.agent_memory = seen.agent_memory]
               /\ last' = [op |-> "process_post", post_id |-> post, submitted |-> FALSE,
                           prior_memory |-> runner.agent_memory]
               /\ UNCHANGED modVars
          ELSE /\ agent_scores' = call.agent_scores
               /\ global_chaos_level' = call.global_chaos_level
               /\ IF call.result.action = "REJECT"
                  THEN /\ runner' = [runner EXCEPT !.next = @ + 1]
                       /\ last' = [op |-> "process_post", post_id |-> post,
                                   submitted |-> FALSE,
                                   prior_memory |-> runner.agent_memory]
                  ELSE IF post_raises
                  THEN /\ runner' = [runner EXCEPT !.pc = "idle"]
                       /\ last' = [op |-> "process_post", post_id |-> post,
                                   submitted |-> FALSE,
                                   prior_memory |-> runner.agent_memory]
                  ELSE /\ runner' = [runner EXCEPT
                                        !.next = @ + 1,
                                        !.created[post] = IF status = 201 THEN @ + 1 ELSE @,
                                        !.agent_memory = update_agent_memory(@, post)]
                       /\ last' = [op |-> "process_post", post_id |-> post,
                                   submitted |-> TRUE, status |-> status,
                                   prior_memory |-> runner.agent_memory]
    /\ UNCHANGED <<now, steps, driftVars, pairVars, relVars, concVars, memVars>>

\* the loop over the posts is over: the cycle returns
EndCycle ==
    /\ runner.pc = "in_cycle"
    /\ runner.next > Len(CommentPosts)
    /\ runner' = [runner EXCEPT !.pc = "idle"]
    /\ last' = [op |-> "run_agent_cycle"]
    /\ UNCHANGED <<now, steps, driftVars, modVars, pairVars, relVars, concVars, memVars>>

InitComment ==
    /\ now = 0
    /\ steps = 0
    /\ last = NoCall
    /\ state_files = << >>
    /\ agent_scores = << >>
    /\ global_chaos_level = 50 * GlobalScale
    /\ moderator2 = << >>
    /\ rel_files = << >>
    /\ pc = << >>
    /\ loaded = << >>
    /\ memory_files = << >>
    /\ incident_files = << >>
    /\ runner \in {new_commenter(earlier) : earlier \in {{}, {1}}}

ProcessPost ==
    \E responds \in BOOLEAN, api_ok \in BOOLEAN, draft \in Drafts, status \in CommentStatuses, post_raises \in BOOLEAN : process_post(responds, api_ok, draft, status, post_raises)

NextComment == StartCycle \/ ProcessPost \/ EndCycle

SpecComment == InitComment /\ [][NextComment]_vars

\* C27: over any sequence of cycles an agent submits at most one comment per post:
\* a post the agent has commented on is skipped in every later cycle
C27_AtMostOneCommentPerPost ==
    \A p \in DOMAIN runner.created : runner.created[p] <= 1

\* C30: a "commented" entry for a post is recorded in the agent's memory only when
\* the board answered the submitted comment with 201; a failed submission leaves
\* the agent's memory unchanged
C30_MemoryOnlyAfterCreated ==
    (last.op = "process_post" /\ last.submitted /\ last.status # 201) =>
        runner.agent_memory = last.prior_memory

----------------------------------------------------------------------------
\* Relationship files of agents whose ids hold the "_" that joins the key

KeyAgents == {<<"a">>, <<"c">>, <<"a", "_", "b">>, <<"b", "_", "c">>}

InitRelKeys ==
    /\ now = 0
    /\ steps = 0
    /\ last = NoCall
    /\ state_files = << >>
    /\ agent_scores = << >>
    /\ global_chaos_level = 0
    /\ moderator2 = << >>
    /\ rel_files = << >>
    /\ pc = << >>
    /\ loaded = << >>
    /\ memory_files = << >>
    /\ incident_files = << >>
    /\ runner = << >>

\* update_relationship for two different agents, without incident or joke
UpdateRelationshipKeys ==
    \E a \in KeyAgents, s \in RelSentiments :
        \E b \in KeyAgents \ {a} :
            UpdateRelationshipCall(a, b, s, None, None)

NextRelKeys == UpdateRelationshipKeys

SpecRelKeys == InitRelKeys /\ [][NextRelKeys]_vars

\* C28: two different unordered pairs of agents never share a relationship record,
\* also when an id holds "_": update_relationship on one pair does not change
\* what get_relationship returns for any other pair
C28_PairsNeverShareRecord ==
    last.op = "update_relationship" =>
        \A x \in KeyAgents : \A y \in KeyAgents \ {x} :
            {x, y} # {last.agent_id, last.other_agent_id}
                => get_relationship(rel_files, x, y) = get_relationship(last.prior, x, y)

====
